---- MODULE Spec2Model ----
(***************************************************************************)
(* opencode-virtual-provider: routing of a virtual model alias to one of   *)
(* several real provider/model targets.  The module models the router      *)
(* state (cooldowns, round-robin cursors, metrics), the target selector,   *)
(* the cooldown store, the config merge and the plugin hooks               *)
(* (config, chat.message, event, auth.loader fetch) together with          *)
(* resolveModel.                                                           *)
(*                                                                         *)
(* Conventions.                                                            *)
(*  - A JavaScript Map is a function whose DOMAIN is the set of keys       *)
(*    present; Map.get(k) ?? d is MapGet(m, k, d).                         *)
(*  - An optional field (x?: T) is a sequence of length 0 (absent) or 1.   *)
(*  - A string holding '/'-separated segments (a model id, a model key)    *)
(*    is the sequence of its segments: "anthropic/claude-opus-4" is        *)
(*    <<"anthropic", "claude-opus-4">>.                                    *)
(*  - A duration string "<n><unit>" is the record [mag |-> n, unit |-> u]. *)
(*  - Indices into target lists are 0-based as in the source; the TLA+     *)
(*    sequence element is targets[i + 1].                                  *)
(***************************************************************************)
EXTENDS Integers, Sequences, FiniteSets, TLC

VARIABLES
    loadedConfig,           \* index.ts: let loadedConfig (virtualModels, strategyProfiles)
    cooldowns,              \* RouterState.cooldowns: model key -> expiry instant
    roundRobinIndex,        \* RouterState.roundRobinIndex: virtual model id -> index
    metrics,                \* RouterState.metrics: model key -> counters
    sessionFallbackCursor,  \* index.ts: session id -> index into the ordered target list
    sessionVirtualModel,    \* index.ts: session id -> bound virtual model id
    now,                    \* Date.now()
    fetchReq,               \* the auth.loader fetch request in flight (its loop position)
    backoff,                \* the executeWithBackoff call in progress (its locals and position)
    inflight,               \* the chat.message / event handler instances suspended at an await
    last,                   \* history: what the most recent operation did
    hist                    \* history: per-session / per-key bookkeeping for the properties

vars == <<loadedConfig, cooldowns, roundRobinIndex, metrics, sessionFallbackCursor,
          sessionVirtualModel, now, fetchReq, backoff, inflight, last, hist>>

----------------------------------------------------------------------------
(* Bounds of the model *)

\* how many operations (hook calls, fetch steps, resolveModel calls, clock
\* advances) one behaviour of the plugin specification performs
MaxOps == 5
\* how many selectTargets calls per model id the selector specification counts
MaxCalls == 4
\* Math.random() is drawn from the levels 0 .. RandLevels
RandLevels == 2
\* Date.now() when the router is constructed (any positive instant)
StartTime == 1000000

----------------------------------------------------------------------------
(* Maps and options *)

EmptyMap == [x \in {} |-> 0]
MapHas(m, k) == k \in DOMAIN m
MapGet(m, k, d) == IF k \in DOMAIN m THEN m[k] ELSE d
MapSet(m, k, v) == [x \in (DOMAIN m) \cup {k} |-> IF x = k THEN v ELSE m[x]]
MapDelete(m, k) == [x \in (DOMAIN m) \ {k} |-> m[x]]

Absent == << >>
Some(x) == << x >>
IsPresent(o) == Len(o) > 0
\* a ?? b
Coalesce(a, b) == IF IsPresent(a) THEN a ELSE b

Min(a, b) == IF a <= b THEN a ELSE b

----------------------------------------------------------------------------
(* util/duration.ts *)

DurationUnits == {"ms", "s", "m", "h"}

\* parseDuration: the regular expression accepts <digits><unit> only; the
\* result is the magnitude scaled to milliseconds.  ok = FALSE is the thrown
\* Error("Invalid duration").
parseDuration(duration) ==
    IF duration.unit \notin DurationUnits
    THEN [ok |-> FALSE, ms |-> 0]
    ELSE [ok |-> TRUE,
          ms |-> CASE duration.unit = "ms" -> duration.mag
                   [] duration.unit = "s"  -> duration.mag * 1000
                   [] duration.unit = "m"  -> duration.mag * 60 * 1000
                   [] duration.unit = "h"  -> duration.mag * 60 * 60 * 1000]

Dur(n, u) == [mag |-> n, unit |-> u]

\* the string "": no magnitude, no unit
EmptyString == [mag |-> -1, unit |-> ""]

\* `!duration` is false: the argument is neither undefined nor ""
Truthy(duration) == IsPresent(duration) /\ duration[1] # EmptyString

----------------------------------------------------------------------------
(* router/state.ts *)

\* createRouterState
createRouterState ==
    [cooldowns |-> EmptyMap, roundRobinIndex |-> EmptyMap, metrics |-> EmptyMap]

\* isInCooldown with the expiry comparison strict: an entry expiring exactly
\* now still counts as active
isInCooldown_strict(modelKey, cd, t) ==
    LET expiry == MapGet(cd, modelKey, 0) IN
    IF expiry = 0 THEN [result |-> FALSE, cooldowns |-> cd]
    ELSE IF t > expiry THEN [result |-> FALSE, cooldowns |-> MapDelete(cd, modelKey)]
    ELSE [result |-> TRUE, cooldowns |-> cd]

\* isInCooldown without expiry: an entry excludes its key for good
isInCooldown_sticky(modelKey, cd, t) ==
    [result |-> MapHas(cd, modelKey), cooldowns |-> cd]

\* isInCooldown that never reports a cooldown and leaves the map alone
isInCooldown_never(modelKey, cd, t) ==
    [result |-> FALSE, cooldowns |-> cd]

\* isInCooldown(modelKey, state): the answer and the cooldown map it leaves.
\* `!expiry` is true for a missing entry and for an expiry of 0.
isInCooldown(modelKey, cd, t) ==
    LET expiry == MapGet(cd, modelKey, 0) IN
    IF expiry = 0 THEN [result |-> FALSE, cooldowns |-> cd]
    ELSE IF t >= expiry THEN [result |-> FALSE, cooldowns |-> MapDelete(cd, modelKey)]
    ELSE [result |-> TRUE, cooldowns |-> cd]

\* setCooldown that stacks: an active window is extended by the new duration
setCooldown_stack(modelKey, duration, cd, t) ==
    IF ~Truthy(duration) THEN [ok |-> TRUE, cooldowns |-> cd]
    ELSE LET p == parseDuration(duration[1])
             old == MapGet(cd, modelKey, 0) IN
         IF ~p.ok THEN [ok |-> FALSE, cooldowns |-> cd]
         ELSE [ok |-> TRUE,
               cooldowns |-> MapSet(cd, modelKey, IF old > t THEN old + p.ms ELSE t + p.ms)]

\* setCooldown that keeps an existing later expiry (cooldowns extend, never shorten)
setCooldown_keepLater(modelKey, duration, cd, t) ==
    IF ~Truthy(duration) THEN [ok |-> TRUE, cooldowns |-> cd]
    ELSE LET ms == parseDuration(duration[1]).ms
             old == MapGet(cd, modelKey, 0) IN
         [ok |-> TRUE,
          cooldowns |-> MapSet(cd, modelKey, IF old > t + ms THEN old ELSE t + ms)]

\* setCooldown that clears the key's entry when no duration is given
setCooldown_clearOnAbsent(modelKey, duration, cd, t) ==
    IF ~Truthy(duration) THEN [ok |-> TRUE, cooldowns |-> MapDelete(cd, modelKey)]
    ELSE LET p == parseDuration(duration[1]) IN
         IF ~p.ok THEN [ok |-> FALSE, cooldowns |-> cd]
         ELSE [ok |-> TRUE, cooldowns |-> MapSet(cd, modelKey, t + p.ms)]

\* setCooldown(modelKey, duration, state): `if (!duration) return` leaves on
\* undefined and on ""; a malformed duration throws out of parseDuration
\* before the map is written.
setCooldown(modelKey, duration, cd, t) ==
    IF ~Truthy(duration) THEN [ok |-> TRUE, cooldowns |-> cd]
    ELSE LET p == parseDuration(duration[1]) IN
         IF ~p.ok THEN [ok |-> FALSE, cooldowns |-> cd]
         ELSE [ok |-> TRUE, cooldowns |-> MapSet(cd, modelKey, t + p.ms)]

ZeroMetrics ==
    [requests |-> 0, successes |-> 0, failures |-> 0, fallbacks |-> 0, totalLatencyMs |-> 0]

\* getOrCreateMetrics
getOrCreateMetrics(modelKey, mt) == MapGet(mt, modelKey, ZeroMetrics)

recordSuccess(modelKey, latencyMs, mt) ==
    LET m == getOrCreateMetrics(modelKey, mt) IN
    MapSet(mt, modelKey, [m EXCEPT !.requests = @ + 1, !.successes = @ + 1,
                                   !.totalLatencyMs = @ + latencyMs])

recordFailure(modelKey, mt) ==
    LET m == getOrCreateMetrics(modelKey, mt) IN
    MapSet(mt, modelKey, [m EXCEPT !.requests = @ + 1, !.failures = @ + 1])

\* recordFallback that counts the fallback as a request too
recordFallback_asRequest(modelKey, mt) ==
    LET m == getOrCreateMetrics(modelKey, mt) IN
    MapSet(mt, modelKey, [m EXCEPT !.fallbacks = @ + 1, !.requests = @ + 1])

recordFallback(modelKey, mt) ==
    LET m == getOrCreateMetrics(modelKey, mt) IN
    MapSet(mt, modelKey, [m EXCEPT !.fallbacks = @ + 1])

----------------------------------------------------------------------------
(* config/strategies.ts *)

\* resolveProfile(model, profiles): the referenced profile, or null (Absent)
resolveProfile(model, profiles) ==
    IF ~IsPresent(model.strategy_profile) THEN Absent
    ELSE IF MapHas(profiles, model.strategy_profile[1])
         THEN Some(profiles[model.strategy_profile[1]])
         ELSE Absent

DefaultFallbackOn == <<429, 500, 503>>

\* mergeWithProfile with the precedence reversed: the profile's trigger set wins
mergeWithProfile_profileFirst(modelConfig, profile) ==
    LET fallbackFromProfile == IF IsPresent(profile) THEN Some(profile[1].fallback_on) ELSE Absent
        fallbackOn == Coalesce(fallbackFromProfile,
                               Coalesce(modelConfig.fallback_on, Some(DefaultFallbackOn)))[1]
    IN [fallback_on |-> fallbackOn,
        cooldown    |-> Coalesce(modelConfig.cooldown,
                                 IF IsPresent(profile) THEN profile[1].cooldown ELSE Absent),
        max_retries |-> IF IsPresent(profile) THEN profile[1].max_retries ELSE 0,
        on_fail     |-> IF IsPresent(profile) THEN Coalesce(profile[1].on_fail, Some("continue_with_next"))[1]
                        ELSE "continue_with_next"]

\* mergeWithProfile(modelConfig, profile)
mergeWithProfile(modelConfig, profile) ==
    LET fallbackFromProfile == IF IsPresent(profile) THEN Some(profile[1].fallback_on) ELSE Absent
        fallbackOn == Coalesce(modelConfig.fallback_on,
                               Coalesce(fallbackFromProfile, Some(DefaultFallbackOn)))[1]
    IN [fallback_on |-> fallbackOn,
        cooldown    |-> Coalesce(modelConfig.cooldown,
                                 IF IsPresent(profile) THEN profile[1].cooldown ELSE Absent),
        max_retries |-> IF IsPresent(profile) THEN profile[1].max_retries ELSE 0,
        on_fail     |-> IF IsPresent(profile) THEN Coalesce(profile[1].on_fail, Some("continue_with_next"))[1]
                        ELSE "continue_with_next"]

----------------------------------------------------------------------------
(* router/strategies.ts: selectTargets *)

\* Array.prototype.slice(a, b) on a 0-based array, both ends clamped
Slice(s, a, b) == SubSeq(s, Min(a, Len(s)) + 1, Min(b, Len(s)))

Perms(n) == {p \in [1..n -> 1..n] : \A i, j \in 1..n : p[i] = p[j] => i = j}

\* Insert x into the descending-sorted list s after every element whose score
\* is >= x's (the sort is stable).
RECURSIVE InsertDesc(_, _)
InsertDesc(x, s) ==
    IF s = << >> THEN << x >>
    ELSE IF Head(s).score >= x.score THEN << Head(s) >> \o InsertDesc(x, Tail(s))
    ELSE << x >> \o s

\* .sort((a, b) => b.score - a.score): stable, descending by score
RECURSIVE SortDesc(_)
SortDesc(s) ==
    IF s = << >> THEN << >>
    ELSE InsertDesc(s[Len(s)], SortDesc(SubSeq(s, 1, Len(s) - 1)))

\* t.weight ?? 1
WeightOf(t) == Coalesce(t.weight, Some(1))[1]

\* weightedSort(targets): score = Math.random() * (weight / totalWeight).  The
\* draws are the Math.random() values in units of 1/(RandLevels+1); the common
\* positive factor 1/totalWeight does not change the order, so the score is kept
\* as draw * weight.
weightedSort(targets, draws) ==
    LET scored == [i \in 1..Len(targets) |->
                     [target |-> targets[i], score |-> draws[i] * WeightOf(targets[i])]]
        sorted == SortDesc(scored)
    IN [i \in 1..Len(targets) |-> sorted[i].target]

\* The random source one selectTargets call consumes: for "random" the outcome
\* of sorting with the comparator Math.random() - 0.5 (some permutation of the
\* positions), for "weighted" one Math.random() draw per target.
RandomSources(config) ==
    LET n == Len(config.targets) IN
    CASE config.strategy = "random"   -> {[perm |-> p, draws |-> << >>] : p \in Perms(n)}
      [] config.strategy = "weighted" -> {[perm |-> << >>, draws |-> d] : d \in [1..n -> 0..RandLevels]}
      [] OTHER -> {[perm |-> << >>, draws |-> << >>]}

\* selectTargets with the rotation's second slice one element too long
selectTargets_overlap(virtualModelId, config, rr, rnd) ==
    IF config.strategy = "round_robin"
    THEN LET idx == MapGet(rr, virtualModelId, 0) IN
         [result |-> Slice(config.targets, idx, Len(config.targets))
                     \o Slice(config.targets, 0, idx + 1),
          roundRobinIndex |-> MapSet(rr, virtualModelId, (idx + 1) % Len(config.targets)),
          targets |-> config.targets]
    ELSE [result |-> config.targets, roundRobinIndex |-> rr, targets |-> config.targets]

\* selectTargets with the cursor advanced without wrapping
selectTargets_nowrap(virtualModelId, config, rr, rnd) ==
    IF config.strategy = "round_robin"
    THEN LET idx == MapGet(rr, virtualModelId, 0) IN
         [result |-> Slice(config.targets, idx, Len(config.targets))
                     \o Slice(config.targets, 0, idx),
          roundRobinIndex |-> MapSet(rr, virtualModelId, idx + 1),
          targets |-> config.targets]
    ELSE [result |-> config.targets, roundRobinIndex |-> rr, targets |-> config.targets]

\* selectTargets with the round-robin cursor kept in one slot shared by all ids
selectTargets_shared(virtualModelId, config, rr, rnd) ==
    IF config.strategy = "round_robin"
    THEN LET idx == MapGet(rr, virtualModelId, 0) IN
         [result |-> Slice(config.targets, idx, Len(config.targets))
                     \o Slice(config.targets, 0, idx),
          roundRobinIndex |-> [k \in DOMAIN rr \cup {virtualModelId} |->
                                  (idx + 1) % Len(config.targets)],
          targets |-> config.targets]
    ELSE [result |-> config.targets, roundRobinIndex |-> rr, targets |-> config.targets]

\* selectTargets with "random" sorting config.targets itself instead of a copy
selectTargets_inplace(virtualModelId, config, rr, rnd) ==
    IF config.strategy = "random"
    THEN LET sorted == [i \in 1..Len(config.targets) |-> config.targets[rnd.perm[i]]] IN
         [result |-> sorted, roundRobinIndex |-> rr, targets |-> sorted]
    ELSE [result |-> config.targets, roundRobinIndex |-> rr, targets |-> config.targets]

\* selectTargets with "priority" ordering the targets by descending weight
selectTargets_byWeight(virtualModelId, config, rr, rnd) ==
    IF config.strategy = "priority"
    THEN [result |-> weightedSort(config.targets, [i \in 1..Len(config.targets) |-> 1]),
          roundRobinIndex |-> rr, targets |-> config.targets]
    ELSE [result |-> config.targets, roundRobinIndex |-> rr, targets |-> config.targets]

\* selectTargets(virtualModelId, config, state): the ordered list returned,
\* the round-robin map the call leaves, and config.targets as the call leaves
\* it (every branch spreads or slices config.targets into a new array before
\* reordering, so the configured list is the one passed in).
selectTargets(virtualModelId, config, rr, rnd) ==
    CASE config.strategy \in {"sequential", "priority"} ->
            [result |-> config.targets, roundRobinIndex |-> rr, targets |-> config.targets]
      [] config.strategy = "round_robin" ->
            LET idx == MapGet(rr, virtualModelId, 0) IN
            [result |-> Slice(config.targets, idx, Len(config.targets))
                        \o Slice(config.targets, 0, idx),
             roundRobinIndex |-> MapSet(rr, virtualModelId, (idx + 1) % Len(config.targets)),
             targets |-> config.targets]
      [] config.strategy = "random" ->
            LET copy == config.targets IN
            [result |-> [i \in 1..Len(copy) |-> copy[rnd.perm[i]]],
             roundRobinIndex |-> rr, targets |-> config.targets]
      [] config.strategy = "weighted" ->
            [result |-> weightedSort(config.targets, rnd.draws), roundRobinIndex |-> rr,
             targets |-> config.targets]
      [] OTHER -> [result |-> config.targets, roundRobinIndex |-> rr, targets |-> config.targets]

----------------------------------------------------------------------------
(* normalizeModelID and model keys *)

\* normalizeModelID(providerID, modelID): strip a leading "<provider>/"
normalizeModelID(providerID, modelID) ==
    IF Len(modelID) > 1 /\ modelID[1] = providerID THEN Tail(modelID) ELSE modelID

\* `${target.provider}/${modelID}`
ModelKey(t) == << t.provider >> \o normalizeModelID(t.provider, t.model)

----------------------------------------------------------------------------
(* Targets and configurations the specifications draw from *)

\* test/strategies.test.ts: targetA, targetB, targetC
TargetA == [provider |-> "anthropic", model |-> <<"claude-opus-4">>, weight |-> Some(3)]
TargetB == [provider |-> "anthropic", model |-> <<"claude-sonnet-4">>, weight |-> Some(1)]
TargetC == [provider |-> "openai", model |-> <<"gpt-4o">>, weight |-> Some(2)]
\* the same real model as TargetA, written with the provider prefix (README.md)
TargetAp == [provider |-> "anthropic", model |-> <<"anthropic", "claude-opus-4">>, weight |-> Absent]

Strategies == {"sequential", "priority", "round_robin", "random", "weighted"}

\* VirtualModelConfig
ModelConfig(strategy, profile, fallbackOn, cooldown, targets) ==
    [strategy |-> strategy, strategy_profile |-> profile, fallback_on |-> fallbackOn,
     cooldown |-> cooldown, targets |-> targets]

\* StrategyProfile
Profile(maxRetries, fallbackOn, cooldown) ==
    [max_retries |-> maxRetries, fallback_on |-> fallbackOn, on_fail |-> Absent,
     cooldown |-> cooldown]

----------------------------------------------------------------------------
(* index.ts: helpers of the plugin hooks *)

\* the scan without the cooldown test: the first index is taken
ScanViable_nocheck(targets, i, cd, t) ==
    IF i >= Len(targets) THEN [idx |-> -1, cooldowns |-> cd]
    ELSE [idx |-> i, cooldowns |-> cd]

\* the scan that gives up at the first target in cooldown
ScanViable_giveUp(targets, i, cd, t) ==
    IF i >= Len(targets) THEN [idx |-> -1, cooldowns |-> cd]
    ELSE IF MapGet(cd, ModelKey(targets[i + 1]), 0) > t THEN [idx |-> -1, cooldowns |-> cd]
    ELSE [idx |-> i, cooldowns |-> MapDelete(cd, ModelKey(targets[i + 1]))]

RECURSIVE ScanFrom(_, _, _, _)
ScanFrom(targets, i, cd, t) ==
    IF i >= Len(targets) THEN [idx |-> -1, cooldowns |-> cd]
    ELSE IF MapGet(cd, ModelKey(targets[i + 1]), 0) > t THEN ScanFrom(targets, i + 1, cd, t)
    ELSE [idx |-> i, cooldowns |-> cd]

\* the scan restarted at index 0 whatever the starting index
ScanViable_fromZero(targets, i, cd, t) ==
    IF i >= Len(targets) THEN [idx |-> -1, cooldowns |-> cd]
    ELSE ScanFrom(targets, 0, cd, t)

\* for (let i = from; i < targets.length; i++) { if (isInCooldown(key(targets[i]))) continue;
\*   ...; break }: the first index at or after i whose target is not in cooldown
\* (-1: none), and the cooldown map the isInCooldown calls leave.
RECURSIVE ScanViable(_, _, _, _)
ScanViable(targets, i, cd, t) ==
    IF i >= Len(targets) THEN [idx |-> -1, cooldowns |-> cd]
    ELSE LET c == isInCooldown(ModelKey(targets[i + 1]), cd, t) IN
         IF c.result THEN ScanViable(targets, i + 1, c.cooldowns, t)
         ELSE [idx |-> i, cooldowns |-> c.cooldowns]

\* "any_error" as an element of a fallback_on array (no HTTP status is negative)
AnyError == -1

Includes(seq, x) == \E i \in 1..Len(seq) : seq[i] = x

\* chat.message taking the model of any provider for a virtual alias
ChatVirtualModelID_anyProvider(model) ==
    IF Len(model.modelID) > 1 /\ model.modelID[1] = "virtual" THEN Some(model.modelID)
    ELSE Some(<<"virtual">> \o model.modelID)

\* chat.message: the virtual model id the message names, Absent for none
ChatVirtualModelID(model) ==
    IF model.providerID = "virtual" THEN Some(<<"virtual">> \o model.modelID)
    ELSE IF Len(model.modelID) > 1 /\ model.modelID[1] = "virtual" THEN Some(model.modelID)
    ELSE Absent

\* auth.loader fetch: requestedModel.startsWith("virtual/") ? requestedModel : `virtual/${requestedModel}`
FetchVirtualModelID(requestedModel) ==
    IF Len(requestedModel) > 1 /\ requestedModel[1] = "virtual" THEN requestedModel
    ELSE <<"virtual">> \o requestedModel

\* shouldFallbackForError deciding on the status code alone
shouldFallbackForError_statusOnly(error, modelConfig, strategyProfiles) ==
    LET profile == resolveProfile(modelConfig, strategyProfiles)
        resolved == mergeWithProfile(modelConfig, profile)
        fallbackOn == resolved.fallback_on
    IN IF Includes(fallbackOn, AnyError) THEN TRUE
       ELSE IsPresent(error.statusCode) /\ Includes(fallbackOn, error.statusCode[1])

\* shouldFallbackForError(error, modelConfig, strategyProfiles)
shouldFallbackForError(error, modelConfig, strategyProfiles) ==
    LET profile == resolveProfile(modelConfig, strategyProfiles)
        resolved == mergeWithProfile(modelConfig, profile)
        fallbackOn == resolved.fallback_on
    IN IF Includes(fallbackOn, AnyError) THEN TRUE
       ELSE IF IsPresent(error.statusCode) /\ Includes(fallbackOn, error.statusCode[1]) THEN TRUE
       ELSE IF error.name = "ProviderAuthError" THEN TRUE
       ELSE FALSE

\* the cooldown the fetch loop applies to a failed target: "5m"
FetchCooldown == Dur(5, "m")

\* the fetch loop's retry statuses with 500 among them
FetchRetryStatuses_with500 == {429, 500, 502, 503}

\* the statuses on which the fetch loop moves to the next target
FetchRetryStatuses == {429, 503, 502}

----------------------------------------------------------------------------
(* router/strategies.ts: executeWithBackoff *)

\* shouldFallbackStatus matching every status
shouldFallbackStatus_all(status, fallbackOn) == TRUE

\* shouldFallbackStatus with the sentinel's comparison strict
shouldFallbackStatus_strict(status, fallbackOn) ==
    IF Len(fallbackOn) = 1 /\ fallbackOn[1] = AnyError THEN status > 400
    ELSE Includes(fallbackOn, status)

\* shouldFallbackStatus(status, fallbackOn)
shouldFallbackStatus(status, fallbackOn) ==
    IF Len(fallbackOn) = 1 /\ fallbackOn[1] = AnyError THEN status >= 400
    ELSE Includes(fallbackOn, status)

\* the retry test giving up one attempt early
RetriesRemain_short(attempt, maxRetries) == attempt + 1 < maxRetries

\* the retry test with the bound included
RetriesRemain_inclusive(attempt, maxRetries) == attempt <= maxRetries

\* if (attempt < maxRetries)
RetriesRemain(attempt, maxRetries) == attempt < maxRetries

\* the delay scaled without the cap
NextDelay_uncapped(delay, multiplier, maxDelay) == delay * multiplier

\* delay = Math.min(delay * multiplier, maxDelay)
NextDelay(delay, multiplier, maxDelay) == Min(delay * multiplier, maxDelay)

\* profile.backoff?.initial ?? "500ms"
DefaultInitial == Dur(500, "ms")
\* profile.backoff?.multiplier ?? 2
DefaultMultiplier == 2
\* profile.backoff?.max ?? "30s"
DefaultMax == Dur(30, "s")

\* StrategyProfile["backoff"]
Backoff(initial, multiplier, max) ==
    [type |-> "exponential", initial |-> initial, multiplier |-> multiplier, max |-> max]

\* no executeWithBackoff call has been made
BackoffIdle ==
    [pc |-> "idle", maxRetries |-> 0, fallbackOn |-> << >>, attempt |-> 0, delay |-> 0,
     multiplier |-> 0, maxDelay |-> 0,
     tries |-> << >>,    \* history: one record per invocation of fn
     sleeps |-> << >>,   \* history: the delays slept, in order
     result |-> Absent,  \* the BackoffResult returned, or the thrown error
     cancelled |-> Absent, \* history: the number of fn invocations made when the
                           \* caller cancelled the request
     profile |-> Absent]   \* history: the profile the call was made with

----------------------------------------------------------------------------
(* History records *)

NoKey == << >>

\* what the most recent operation did
LastNone ==
    [op        |-> "none",   \* the operation
     session   |-> "",       \* its session id
     vm        |-> << >>,    \* the virtual model id it worked on
     preVm     |-> << >>,    \* chat.message: the id the session was bound to before
     handled   |-> FALSE,    \* event: the report passed every early return
     hadCursor |-> FALSE,    \* the session had a cursor entry when the handler began
     preCursor |-> 0,        \* sessionFallbackCursor.get(session) ?? 0 when it began
     wasExhausted |-> FALSE, \* event: the session's entry had been removed by exhaustion
     targets   |-> << >>,    \* the list selectTargets returned to it
     penalised |-> NoKey,    \* the key it recorded a failure on
     exposed   |-> NoKey,    \* the key it selected (rewrote to, re-prompted, attempted, returned)
     exposedIdx |-> -1,      \* the index of that target in `targets`
     current   |-> NoKey,    \* the key last selected for the session before this operation
     key       |-> NoKey,    \* isInCooldown / setCooldown: the key passed
     result    |-> FALSE,    \* isInCooldown: the answer
     pre       |-> EmptyMap, \* the cooldown map before the operation
     duration  |-> Absent,   \* setCooldown: the duration passed
     resolved  |-> Absent,   \* mergeWithProfile: the ResolvedModelConfig returned
     fallback  |-> FALSE,    \* shouldFallbackForError: the answer
     error     |-> Absent,   \* shouldFallbackForError: the error passed
     raw       |-> Absent,   \* loadConfig: the document passed
     warnings  |-> {},       \* loadConfig: the console.warn calls it made
     errors    |-> {},       \* validateConfig: the errors it returned
     changed   |-> FALSE,    \* the operation changed metrics, cooldowns or a session cursor
     event     |-> Absent,   \* event: the type of the event delivered, and its error
                             \* when the hook reached shouldFallbackForError
     model     |-> Absent,   \* chat.message: hookInput.model
     outcome   |-> Absent]   \* fetch: what the forwarded request did

HistNone ==
    [calls     |-> EmptyMap, \* virtual model id -> number of selectTargets calls
     ops       |-> 0,        \* number of operations performed
     current   |-> EmptyMap, \* session -> the key most recently selected for it
     exhausted |-> {},       \* sessions whose cursor entry exhaustion removed (no dispatch since)
     promised  |-> EmptyMap, \* key -> latest instant an event report promised its cooldown to last
     lastSet   |-> EmptyMap, \* key -> call time + duration of the latest setCooldown on the key
     recorded  |-> EmptyMap] \* key -> number of recordSuccess / recordFailure / recordFallback calls

----------------------------------------------------------------------------
(* The selector on its own: selectTargets called repeatedly on one router   *)
(* state, for two model ids that share one configuration                   *)
(* (test/strategies.test.ts).                                              *)

SelIds == {<<"virtual", "model-a">>, <<"virtual", "model-b">>}

SelTargetLists ==
    {<<TargetA>>, <<TargetA, TargetB>>, <<TargetB, TargetA>>, <<TargetA, TargetB, TargetC>>,
     <<TargetC, TargetA, TargetB>>, <<TargetA, TargetAp, TargetB>>, <<TargetA, TargetB, TargetA>>}

SelConfigs ==
    {ModelConfig(s, Absent, Absent, Absent, ts) : s \in Strategies, ts \in SelTargetLists}

\* the handler invocations the host can have running at once
Handlers == {"h1", "h2"}

\* no invocation in progress; cursor holds the value the handler read from
\* sessionFallbackCursor before it suspended
HandlerIdle == [pc |-> "idle", session |-> "", vm |-> << >>, cursor |-> 0,
                roundRobinIndex |-> EmptyMap]

InitRouter ==
    /\ cooldowns = createRouterState.cooldowns
    /\ roundRobinIndex = createRouterState.roundRobinIndex
    /\ metrics = createRouterState.metrics
    /\ sessionFallbackCursor = EmptyMap
    /\ sessionVirtualModel = EmptyMap
    /\ now = StartTime
    /\ fetchReq = [pc |-> "idle", vm |-> << >>, targets |-> << >>, i |-> 0]
    /\ backoff = BackoffIdle
    /\ inflight = [h \in Handlers |-> HandlerIdle]
    /\ last = LastNone
    /\ hist = HistNone

SelInit ==
    /\ InitRouter
    /\ \E c \in SelConfigs :
          loadedConfig = [virtualModels |-> [id \in SelIds |-> c], strategyProfiles |-> EmptyMap]

\* one call selectTargets(id, config, state)
SelectCall ==
    \E id \in SelIds :
      LET config == loadedConfig.virtualModels[id] IN
      \E rnd \in RandomSources(config) :
        LET r == selectTargets(id, config, roundRobinIndex, rnd) IN
        /\ MapGet(hist.calls, id, 0) < MaxCalls
        /\ UNCHANGED <<backoff, inflight>>
        /\ roundRobinIndex' = r.roundRobinIndex
        /\ loadedConfig' = [loadedConfig EXCEPT !.virtualModels[id].targets = r.targets]
        /\ last' = [LastNone EXCEPT !.op = "selectTargets", !.vm = id, !.targets = r.result]
        /\ hist' = [hist EXCEPT !.calls = MapSet(@, id, MapGet(@, id, 0) + 1)]
        /\ UNCHANGED <<cooldowns, metrics, sessionFallbackCursor,
                       sessionVirtualModel, now, fetchReq>>

SelNext == SelectCall

SpecSelect == SelInit /\ [][SelNext]_vars

\* number of positions of s holding x
Count(s, x) == Cardinality({i \in 1..Len(s) : s[i] = x})

SameMultiset(s, t) ==
    /\ Len(s) = Len(t)
    /\ \A i \in 1..Len(s) : Count(s, s[i]) = Count(t, s[i])
    /\ \A i \in 1..Len(t) : Count(s, t[i]) = Count(t, t[i])

\* C1: for every strategy and every router state the selector reaches,
\* selectTargets returns a list of the same length as config.targets holding
\* exactly the same multiset of targets.
C1_SelectKeepsMultiset ==
    last.op = "selectTargets" =>
        SameMultiset(last.targets, loadedConfig.virtualModels[last.vm].targets)

\* a call under a reordering strategy on a list with a repeated target returned
\* an order different from the configured one
C1_Witness ==
    /\ last.op = "selectTargets"
    /\ loadedConfig.virtualModels[last.vm].strategy \in {"round_robin", "random", "weighted"}
    /\ last.targets # loadedConfig.virtualModels[last.vm].targets
    /\ \E i, j \in 1..Len(last.targets) : i # j /\ last.targets[i] = last.targets[j]

\* the cyclic rotation of targets beginning at 0-based index k
Rotation(targets, k) ==
    [i \in 1..Len(targets) |-> targets[((i - 1 + k) % Len(targets)) + 1]]

\* C2: starting from the empty router state, the k-th call (k = 0, 1, ...) of
\* selectTargets for a round_robin model returns the rotation of config.targets
\* beginning at k mod N, and the stored cursor is the start of the next call,
\* so N consecutive calls start at N different positions.
C2_RoundRobinKthCall ==
    \A id \in SelIds :
      LET config == loadedConfig.virtualModels[id]
          n == Len(config.targets)
          k == MapGet(hist.calls, id, 0)
      IN config.strategy = "round_robin" =>
           /\ MapGet(roundRobinIndex, id, 0) = k % n
           /\ (last.op = "selectTargets" /\ last.vm = id) =>
                 last.targets = Rotation(config.targets, (k - 1) % n)

\* the fourth call on a three-target round_robin model has wrapped to index 0
\* and returned the rotation beginning at the second target
C2_Witness ==
    /\ last.op = "selectTargets"
    /\ loadedConfig.virtualModels[last.vm].strategy = "round_robin"
    /\ Len(last.targets) = 3
    /\ MapGet(hist.calls, last.vm, 0) = 4
    /\ last.targets[1] = loadedConfig.virtualModels[last.vm].targets[1]
    /\ roundRobinIndex[last.vm] = 1

----------------------------------------------------------------------------
(* The plugin: configurations the config hook may load *)

Sessions == {"s1", "s2"}

WorkBuild == <<"virtual", "work-build">>
WorkPlan == <<"virtual", "work-plan">>

\* spec section 8, end-to-end: sequential A, B; profile trigger {503}, cooldown "1m"
CfgWorkBuild ==
    [virtualModels |->
        (WorkBuild :> ModelConfig("sequential", Some("default"), Absent, Absent,
                                  <<TargetA, TargetB>>)),
     strategyProfiles |-> ("default" :> Profile(1, <<503>>, Some(Dur(1, "m"))))]

\* one round_robin model over three targets, model-level cooldown, default trigger
CfgRoundRobin ==
    [virtualModels |->
        (WorkPlan :> ModelConfig("round_robin", Absent, Absent, Some(Dur(1, "m")),
                                 <<TargetA, TargetB, TargetC>>)),
     strategyProfiles |-> EmptyMap]

\* two sequential models that share one real target under different cooldowns
CfgShared ==
    [virtualModels |->
        (WorkBuild :> ModelConfig("sequential", Absent, Absent, Some(Dur(5, "m")),
                                  <<TargetA, TargetB, TargetC>>)
         @@ WorkPlan :> ModelConfig("sequential", Some("quick"), Absent, Absent,
                                    <<TargetAp, TargetC>>)),
     strategyProfiles |-> ("quick" :> Profile(0, <<AnyError>>, Some(Dur(1, "m"))))]

\* a sequential model for which neither the model nor its profile declares a cooldown
CfgNoCooldown ==
    [virtualModels |->
        (WorkBuild :> ModelConfig("sequential", Some("retry"), Absent, Absent,
                                  <<TargetA, TargetB>>)),
     strategyProfiles |-> ("retry" :> Profile(2, <<503>>, Absent))]

Configs == {CfgWorkBuild, CfgRoundRobin, CfgShared, CfgNoCooldown}

\* LoadedConfig before the config hook has run
EmptyConfig == [virtualModels |-> EmptyMap, strategyProfiles |-> EmptyMap]

\* the models a chat.message may carry (hookInput.model)
ChatModels ==
    {[providerID |-> "virtual", modelID |-> <<"work-build">>],
     [providerID |-> "virtual", modelID |-> <<"work-plan">>],
     [providerID |-> "anthropic", modelID |-> <<"claude-sonnet-4-6">>],
     [providerID |-> "anthropic", modelID |-> <<"work-build">>]}

\* the errors a session.error event may carry
EventErrors ==
    {[name |-> "APIError", statusCode |-> Some(503)],
     [name |-> "APIError", statusCode |-> Some(404)],
     [name |-> "ProviderAuthError", statusCode |-> Absent]}

\* the events the host may deliver
Events ==
    {[type |-> "session.error", sessionID |-> Some(s), error |-> Some(e)] :
        s \in Sessions, e \in EventErrors}
    \cup {[type |-> "session.idle", sessionID |-> Some(s), error |-> Absent] : s \in Sessions}
    \cup {[type |-> "session.error", sessionID |-> Absent, error |-> Absent]}
    \cup {[type |-> "session.updated", sessionID |-> Some(s),
           error |-> Some([name |-> "APIError", statusCode |-> Some(503)])] : s \in Sessions}

\* body.model of a request reaching the virtual provider's fetch
FetchModels == {<<"work-build">>, <<"virtual", "work-plan">>, <<"gpt-4o">>}

\* what the forwarded fetch may do: return a status, or throw
FetchOutcomes ==
    {[threw |-> FALSE, status |-> 200], [threw |-> FALSE, status |-> 503],
     [threw |-> FALSE, status |-> 500], [threw |-> TRUE, status |-> 0]}

FetchIdle == [pc |-> "idle", vm |-> << >>, targets |-> << >>, i |-> 0]

TickSteps == {60000, 300000}

Max(a, b) == IF a >= b THEN a ELSE b

\* one more operation performed
Counted(h) == [h EXCEPT !.ops = @ + 1]

Init ==
    /\ InitRouter
    /\ loadedConfig = EmptyConfig

\* config hook: loadedConfig = loadConfigFromDirectory(...); the host runs it
\* once, before the first request
ConfigHook ==
    /\ loadedConfig = EmptyConfig
    /\ UNCHANGED <<backoff, inflight>>
    /\ loadedConfig' \in Configs
    /\ last' = [LastNone EXCEPT !.op = "config"]
    /\ UNCHANGED <<cooldowns, roundRobinIndex, metrics, sessionFallbackCursor,
                   sessionVirtualModel, now, fetchReq, hist>>

\* "chat.message" hook
ChatMessage ==
    /\ hist.ops < MaxOps
    /\ UNCHANGED <<backoff, inflight>>
    /\ \E sessionID \in Sessions, model \in ChatModels :
         LET virtualModelID == ChatVirtualModelID(model) IN
         IF ~IsPresent(virtualModelID) \/ ~MapHas(loadedConfig.virtualModels, virtualModelID[1])
         THEN /\ last' = [LastNone EXCEPT !.op = "chat.message", !.session = sessionID,
                                      !.model = Some(model)]
              /\ UNCHANGED <<loadedConfig, cooldowns, roundRobinIndex, metrics,
                             sessionFallbackCursor, sessionVirtualModel, now, fetchReq>>
              /\ hist' = Counted(hist)
         ELSE
           LET vm == virtualModelID[1]
               cursor == MapGet(sessionFallbackCursor, sessionID, 0)
               config == loadedConfig.virtualModels[vm]
           IN \E rnd \in RandomSources(config) :
             LET sel == selectTargets(vm, config, roundRobinIndex, rnd)
                 targets == sel.result
                 scan == ScanViable(targets, cursor, cooldowns, now)
                 found == scan.idx >= 0
                 key == IF found THEN ModelKey(targets[scan.idx + 1]) ELSE NoKey
             IN
             /\ sessionVirtualModel' = MapSet(sessionVirtualModel, sessionID, vm)
             /\ roundRobinIndex' = sel.roundRobinIndex
             /\ cooldowns' = scan.cooldowns
             /\ sessionFallbackCursor' =
                   IF found THEN MapSet(sessionFallbackCursor, sessionID, scan.idx)
                   ELSE sessionFallbackCursor
             /\ last' = [LastNone EXCEPT !.op = "chat.message", !.session = sessionID, !.vm = vm,
                            !.handled = TRUE, !.model = Some(model),
                            !.hadCursor = MapHas(sessionFallbackCursor, sessionID),
                            !.preCursor = cursor, !.targets = targets,
                            !.exposed = key, !.exposedIdx = scan.idx, !.pre = cooldowns,
                            !.preVm = MapGet(sessionVirtualModel, sessionID, << >>)]
             /\ hist' = [Counted(hist) EXCEPT
                            !.current = IF found THEN MapSet(@, sessionID, key)
                                        ELSE MapDelete(@, sessionID),
                            !.exhausted = @ \ {sessionID}]
             /\ UNCHANGED <<loadedConfig, metrics, now, fetchReq>>

\* event hook with the test of the event's type left out
EventBound_anyType(ev) ==
    /\ IsPresent(ev.sessionID) /\ IsPresent(ev.error)
    /\ MapHas(sessionVirtualModel, ev.sessionID[1])
    /\ MapHas(loadedConfig.virtualModels, sessionVirtualModel[ev.sessionID[1]])

\* event hook, the early returns before shouldFallbackForError: the event is a
\* session.error with a session id and an error, the session is bound to a
\* virtual model and that model is configured
EventBound(ev) ==
    /\ ev.type = "session.error"
    /\ IsPresent(ev.sessionID) /\ IsPresent(ev.error)
    /\ MapHas(sessionVirtualModel, ev.sessionID[1])
    /\ MapHas(loadedConfig.virtualModels, sessionVirtualModel[ev.sessionID[1]])

\* event hook
Event ==
    /\ hist.ops < MaxOps
    /\ UNCHANGED <<backoff, inflight>>
    /\ \E ev \in Events :
         LET sessionID == IF IsPresent(ev.sessionID) THEN ev.sessionID[1] ELSE ""
             bound == EventBound(ev)
         IN
         IF ~bound \/ ~shouldFallbackForError(ev.error[1],
                           loadedConfig.virtualModels[sessionVirtualModel[sessionID]],
                           loadedConfig.strategyProfiles)
         THEN /\ last' = [LastNone EXCEPT !.op = "event", !.session = sessionID,
                            !.event = Some([type |-> ev.type,
                                            error |-> IF bound THEN ev.error ELSE Absent]),
                            !.hadCursor = MapHas(sessionFallbackCursor, sessionID),
                            !.wasExhausted = sessionID \in hist.exhausted]
              /\ UNCHANGED <<loadedConfig, cooldowns, roundRobinIndex, metrics,
                             sessionFallbackCursor, sessionVirtualModel, now, fetchReq>>
              /\ hist' = Counted(hist)
         ELSE
           LET vm == sessionVirtualModel[sessionID]
               config == loadedConfig.virtualModels[vm]
               currentCursor == MapGet(sessionFallbackCursor, sessionID, 0)
           IN \E rnd \in RandomSources(config) :
             LET sel == selectTargets(vm, config, roundRobinIndex, rnd)
                 targets == sel.result
                 hasCurrent == currentCursor < Len(targets)
                 modelKey == IF hasCurrent THEN ModelKey(targets[currentCursor + 1]) ELSE NoKey
                 resolved == mergeWithProfile(config, resolveProfile(config, loadedConfig.strategyProfiles))
                 mt1 == IF hasCurrent THEN recordFallback(modelKey, recordFailure(modelKey, metrics))
                        ELSE metrics
                 set == IF hasCurrent THEN setCooldown(modelKey, resolved.cooldown, cooldowns, now)
                        ELSE [ok |-> TRUE, cooldowns |-> cooldowns]
                 nextCursor == currentCursor + 1
                 exhausted == nextCursor >= Len(targets)
                 scan == IF exhausted \/ ~set.ok THEN [idx |-> -1, cooldowns |-> set.cooldowns]
                         ELSE ScanViable(targets, nextCursor, set.cooldowns, now)
                 found == scan.idx >= 0
                 key == IF found THEN ModelKey(targets[scan.idx + 1]) ELSE NoKey
                 cursor1 == IF ~set.ok THEN sessionFallbackCursor
                            ELSE IF exhausted THEN MapDelete(sessionFallbackCursor, sessionID)
                            ELSE IF found THEN MapSet(sessionFallbackCursor, sessionID, scan.idx)
                            ELSE MapSet(sessionFallbackCursor, sessionID, nextCursor)
                 promisedUntil == IF hasCurrent /\ set.ok /\ IsPresent(resolved.cooldown)
                                  THEN now + parseDuration(resolved.cooldown[1]).ms ELSE 0
             IN
             /\ roundRobinIndex' = sel.roundRobinIndex
             /\ metrics' = mt1
             /\ cooldowns' = scan.cooldowns
             /\ sessionFallbackCursor' = cursor1
             /\ last' = [LastNone EXCEPT !.op = "event", !.session = sessionID, !.vm = vm,
                            !.handled = TRUE,
                            !.event = Some([type |-> ev.type, error |-> ev.error]),
                            !.hadCursor = MapHas(sessionFallbackCursor, sessionID),
                            !.preCursor = currentCursor,
                            !.wasExhausted = sessionID \in hist.exhausted,
                            !.current = MapGet(hist.current, sessionID, NoKey),
                            !.targets = targets, !.penalised = modelKey,
                            !.exposed = key, !.exposedIdx = scan.idx, !.pre = cooldowns,
                            !.changed = (mt1 # metrics \/ scan.cooldowns # cooldowns
                                         \/ cursor1 # sessionFallbackCursor)]
             /\ hist' = [Counted(hist) EXCEPT
                            !.current = IF found THEN MapSet(@, sessionID, key) ELSE @,
                            !.exhausted = IF exhausted /\ set.ok THEN @ \cup {sessionID} ELSE @,
                            !.promised = IF promisedUntil > now
                                         THEN MapSet(@, modelKey, Max(MapGet(@, modelKey, 0), promisedUntil))
                                         ELSE @,
                            !.lastSet = IF promisedUntil > 0 THEN MapSet(@, modelKey, promisedUntil)
                                        ELSE @]
             /\ UNCHANGED <<loadedConfig, sessionVirtualModel, now, fetchReq>>

\* auth.loader fetch, from the call to the first awaited forward: the targets
\* are selected and the loop runs to the first target not in cooldown, whose
\* request is then in flight; with none left the call throws "All targets
\* exhausted".
FetchStart ==
    /\ hist.ops < MaxOps
    /\ UNCHANGED <<backoff, inflight>>
    /\ \E requestedModel \in FetchModels :
         LET vm == FetchVirtualModelID(requestedModel) IN
         /\ fetchReq.pc = "idle"
         /\ IF ~MapHas(loadedConfig.virtualModels, vm)
            THEN /\ last' = [LastNone EXCEPT !.op = "fetch.passthrough"]
                 /\ UNCHANGED <<loadedConfig, cooldowns, roundRobinIndex, metrics,
                                sessionFallbackCursor, sessionVirtualModel, now, fetchReq>>
              /\ hist' = Counted(hist)
            ELSE
              LET config == loadedConfig.virtualModels[vm] IN
              \E rnd \in RandomSources(config) :
                LET sel == selectTargets(vm, config, roundRobinIndex, rnd)
                    targets == sel.result
                    scan == ScanViable(targets, 0, cooldowns, now)
                    found == scan.idx >= 0
                IN
                /\ roundRobinIndex' = sel.roundRobinIndex
                /\ cooldowns' = scan.cooldowns
                /\ fetchReq' = IF found
                               THEN [pc |-> "await", vm |-> vm, targets |-> targets, i |-> scan.idx]
                               ELSE FetchIdle
                /\ last' = [LastNone EXCEPT
                               !.op = IF found THEN "fetch.attempt" ELSE "fetch.exhausted",
                               !.vm = vm, !.handled = TRUE, !.targets = targets,
                               !.exposed = IF found THEN ModelKey(targets[scan.idx + 1]) ELSE NoKey,
                               !.exposedIdx = scan.idx]
                /\ UNCHANGED <<loadedConfig, metrics, sessionFallbackCursor,
                               sessionVirtualModel, now>>
                /\ hist' = Counted(hist)

\* auth.loader fetch, from the forwarded request's completion to the next
\* awaited forward, the returned response or the final throw
FetchSettle ==
    /\ UNCHANGED <<backoff, inflight>>
    /\ \E outcome \in FetchOutcomes :
         LET targets == fetchReq.targets
             modelKey == ModelKey(targets[fetchReq.i + 1])
             retry == ~outcome.threw /\ outcome.status \in FetchRetryStatuses
             failed == outcome.threw \/ retry
             mt1 == IF retry THEN recordFallback(modelKey, recordFailure(modelKey, metrics))
                    ELSE IF outcome.threw THEN recordFailure(modelKey, metrics)
                    ELSE metrics
             set == IF failed THEN setCooldown(modelKey, Some(FetchCooldown), cooldowns, now)
                    ELSE [ok |-> TRUE, cooldowns |-> cooldowns]
             scan == IF failed THEN ScanViable(targets, fetchReq.i + 1, set.cooldowns, now)
                     ELSE [idx |-> -1, cooldowns |-> cooldowns]
             found == scan.idx >= 0
         IN
         /\ fetchReq.pc = "await"
         /\ metrics' = mt1
         /\ cooldowns' = scan.cooldowns
         /\ fetchReq' = IF found THEN [fetchReq EXCEPT !.i = scan.idx] ELSE FetchIdle
         /\ last' = [LastNone EXCEPT
                        !.op = IF ~failed THEN "fetch.response"
                               ELSE IF found THEN "fetch.attempt" ELSE "fetch.exhausted",
                        !.vm = fetchReq.vm, !.handled = TRUE, !.targets = targets,
                        !.preCursor = fetchReq.i, !.outcome = Some(outcome),
                        !.penalised = IF failed THEN modelKey ELSE NoKey,
                        !.exposed = IF found THEN ModelKey(targets[scan.idx + 1]) ELSE NoKey,
                        !.exposedIdx = scan.idx, !.pre = cooldowns]
         /\ UNCHANGED <<loadedConfig, roundRobinIndex, sessionFallbackCursor,
                        sessionVirtualModel, now>>
         /\ hist' = [Counted(hist) EXCEPT
                        !.lastSet = IF failed
                                    THEN MapSet(@, modelKey, now + parseDuration(FetchCooldown).ms)
                                    ELSE @]

\* FetchSettle within the budget of operations
FetchReturn ==
    /\ hist.ops < MaxOps
    /\ FetchSettle

\* the ids resolveModel is called with
ResolveIds == {WorkBuild, WorkPlan, <<"virtual", "nonexistent">>}

\* resolveModel(virtualModelID, virtualModels, strategyProfiles, state)
ResolveModel ==
    /\ hist.ops < MaxOps
    /\ UNCHANGED <<backoff, inflight>>
    /\ \E virtualModelID \in ResolveIds :
         IF ~MapHas(loadedConfig.virtualModels, virtualModelID)
         THEN /\ last' = [LastNone EXCEPT !.op = "resolveModel", !.vm = virtualModelID]
              /\ UNCHANGED <<loadedConfig, cooldowns, roundRobinIndex, metrics,
                             sessionFallbackCursor, sessionVirtualModel, now, fetchReq>>
              /\ hist' = Counted(hist)
         ELSE
           LET config == loadedConfig.virtualModels[virtualModelID] IN
           \E rnd \in RandomSources(config) :
             LET sel == selectTargets(virtualModelID, config, roundRobinIndex, rnd)
                 targets == sel.result
                 scan == ScanViable(targets, 0, cooldowns, now)
                 found == scan.idx >= 0
             IN
             /\ roundRobinIndex' = sel.roundRobinIndex
             /\ cooldowns' = scan.cooldowns
             /\ last' = [LastNone EXCEPT !.op = "resolveModel", !.vm = virtualModelID,
                            !.handled = TRUE, !.targets = targets,
                            !.exposed = IF found THEN ModelKey(targets[scan.idx + 1]) ELSE NoKey,
                            !.exposedIdx = scan.idx, !.pre = cooldowns]
             /\ UNCHANGED <<loadedConfig, metrics, sessionFallbackCursor,
                            sessionVirtualModel, now, fetchReq>>
              /\ hist' = Counted(hist)

\* the clock advances
Tick ==
    \E step \in TickSteps :
      /\ hist.ops < MaxOps
      /\ UNCHANGED <<backoff, inflight>>
      /\ now' = now + step
      /\ last' = [LastNone EXCEPT !.op = "tick"]
      /\ hist' = [hist EXCEPT
                     !.ops = @ + 1,
                     !.promised = [k \in {x \in DOMAIN @ : @[x] > now + step} |-> @[k]]]
      /\ UNCHANGED <<loadedConfig, cooldowns, roundRobinIndex, metrics,
                     sessionFallbackCursor, sessionVirtualModel, fetchReq>>

Next ==
    \/ ConfigHook
    \/ ChatMessage
    \/ Event
    \/ FetchStart
    \/ FetchReturn
    \/ ResolveModel
    \/ Tick

Spec == Init /\ [][Next]_vars

----------------------------------------------------------------------------
(* Properties of the fallback cursor and of selection under cooldown *)

\* the key is in cooldown in the current state
InCooldownNow(k) == MapGet(cooldowns, k, 0) > now

\* the indices from `from` on of the list whose target is not in cooldown
ViableFrom(targets, from) ==
    {j \in from..(Len(targets) - 1) : ~InCooldownNow(ModelKey(targets[j + 1]))}

Least(S) == CHOOSE x \in S : \A y \in S : x <= y

\* the most recent operation was a failure report the event hook acted on
\* (a session.error for a bound session that matches the effective trigger)
ReportHandled == last.op = "event" /\ last.handled

\* C3: on a failure report the hook acts on, for a session whose cursor is c:
\* if some index greater than c of the ordered list holds a target that is not
\* in cooldown (once the failed target's own cooldown is applied), the session's
\* cursor becomes the smallest such index and that target is the one
\* re-prompted.
C3_ReportAdvancesToFirstViable ==
    (ReportHandled /\ last.hadCursor /\ ViableFrom(last.targets, last.preCursor + 1) # {}) =>
        LET j == Least(ViableFrom(last.targets, last.preCursor + 1)) IN
        /\ MapHas(sessionFallbackCursor, last.session)
        /\ sessionFallbackCursor[last.session] = j
        /\ last.exposedIdx = j
        /\ last.exposed = ModelKey(last.targets[j + 1])

\* a report moved the cursor past a target in cooldown
C3_Witness ==
    /\ ReportHandled /\ last.hadCursor
    /\ last.exposedIdx > last.preCursor + 1
    /\ sessionFallbackCursor[last.session] = last.exposedIdx

\* C4: on a failure report, if no index after the session's cursor holds a
\* target that is not in cooldown (the cursor was at the last index, or every
\* later target is in cooldown), the session's cursor entry is deleted and no
\* target is re-prompted.
C4_NoViableDeletesCursor ==
    (ReportHandled /\ last.hadCursor /\ ViableFrom(last.targets, last.preCursor + 1) = {}) =>
        /\ ~MapHas(sessionFallbackCursor, last.session)
        /\ last.exposed = NoKey

\* C5: after exhaustion removed a session's cursor entry, a further failure
\* report for that session changes no metrics, no cooldown entry and no cursor
\* and re-prompts no target.
C5_ReportAfterExhaustionIsNoOp ==
    (last.op = "event" /\ last.wasExhausted) =>
        /\ ~last.changed
        /\ last.exposed = NoKey

\* C6: while a session's cursor entry exists its value never decreases, and a
\* failure report the hook acts on that leaves the entry in place strictly
\* increases it.
C6_CursorNeverDecreases ==
    [][\A s \in Sessions :
         (MapHas(sessionFallbackCursor, s) /\ MapHas(sessionFallbackCursor', s)) =>
            /\ sessionFallbackCursor'[s] >= sessionFallbackCursor[s]
            /\ (last'.op = "event" /\ last'.handled /\ last'.session = s) =>
                  sessionFallbackCursor'[s] > sessionFallbackCursor[s]]_vars

\* a dispatch moved an existing cursor forward past a target in cooldown, for a
\* session that had already been advanced by a report
C6_Witness ==
    /\ last.op = "chat.message" /\ last.handled /\ last.hadCursor
    /\ last.preCursor > 0
    /\ sessionFallbackCursor[last.session] > last.preCursor

\* C7: the target a failure report penalises is the target last selected for
\* the session (by its most recent dispatch or re-prompt).
C7_ReportPenalisesSelectedTarget ==
    (ReportHandled /\ last.penalised # NoKey) => last.penalised = last.current

\* the effective cooldown of a configured virtual model
EffectiveCooldown(vm) ==
    mergeWithProfile(loadedConfig.virtualModels[vm],
                     resolveProfile(loadedConfig.virtualModels[vm],
                                    loadedConfig.strategyProfiles)).cooldown

\* C8 as stated: once a report on target A of a model with effective cooldown d
\* has been handled at time t, A is in cooldown at every instant before t + d,
\* and a dispatch for a fresh session made before then selects, instead of A,
\* the first target after A in its list that is not in cooldown.
C8_CooldownLastsItsDuration ==
    \A k \in DOMAIN hist.promised :
       hist.promised[k] > now =>
          /\ InCooldownNow(k)
          /\ (last.op = "chat.message" /\ last.handled /\ ~last.hadCursor
              /\ \E i \in 1..Len(last.targets) : ModelKey(last.targets[i]) = k) =>
                LET i == Least({x \in 1..Len(last.targets) : ModelKey(last.targets[x]) = k}) IN
                /\ last.exposed # k
                /\ ViableFrom(last.targets, i) # {} =>
                      last.exposedIdx = Least(ViableFrom(last.targets, i))

\* a handled report on a target has set that target's expiry to now + d
ReportSetsOwnExpiry ==
    (ReportHandled /\ last.penalised # NoKey /\ IsPresent(EffectiveCooldown(last.vm))) =>
        /\ MapHas(cooldowns, last.penalised)
        /\ cooldowns[last.penalised] = now + parseDuration(EffectiveCooldown(last.vm)[1]).ms

\* a dispatch for a session without a cursor selects the first target of its
\* list that is not in cooldown, and none when all are
FreshDispatchSkipsCooldown ==
    (last.op = "chat.message" /\ last.handled /\ ~last.hadCursor) =>
        /\ ViableFrom(last.targets, 0) # {} =>
              /\ last.exposedIdx = Least(ViableFrom(last.targets, 0))
              /\ last.exposed = ModelKey(last.targets[last.exposedIdx + 1])
        /\ ViableFrom(last.targets, 0) = {} => last.exposed = NoKey

\* an entry that has not expired stays, and changes only when a failure on its
\* key is recorded
UnexpiredEntryKept ==
    \A k \in DOMAIN cooldowns :
       cooldowns[k] > now' =>
          /\ MapHas(cooldowns', k)
          /\ cooldowns'[k] # cooldowns[k] => last'.penalised = k

\* C8 amended: a handled report on target A of a model with effective cooldown
\* d sets A's expiry to report time + d; the entry stays until it expires
\* unless a later failure on A overwrites it with that failure's own expiry
\* (which may be earlier); a dispatch for a fresh session never selects a
\* target in cooldown but the first target of its list that is not.
C8_CooldownUntilExpiryOrOverwrite ==
    [][/\ ReportSetsOwnExpiry'
       /\ FreshDispatchSkipsCooldown'
       /\ UnexpiredEntryKept]_vars

\* spec section 8, end-to-end: after the 503 report on A the fresh session's
\* dispatch selected B directly
C8_Witness ==
    /\ loadedConfig = CfgWorkBuild
    /\ last.op = "chat.message" /\ last.handled /\ ~last.hadCursor
    /\ InCooldownNow(ModelKey(TargetA))
    /\ MapGet(hist.promised, ModelKey(TargetA), 0) > now
    /\ last.exposed = ModelKey(TargetB)
    /\ sessionFallbackCursor[last.session] = 1

\* C9: whatever path selects a target (chat.message rewrite, event re-prompt,
\* resolveModel result, fetch attempt), the target is not in cooldown at the
\* moment it is selected.
C9_SelectedTargetNotInCooldown ==
    last.exposed # NoKey => ~InCooldownNow(last.exposed)

\* a target was selected after at least one target before it in the list was
\* skipped for being in cooldown
C9_Witness ==
    /\ last.exposed # NoKey
    /\ last.exposedIdx > 0
    /\ \E j \in 0..(last.exposedIdx - 1) : InCooldownNow(ModelKey(last.targets[j + 1]))

----------------------------------------------------------------------------
(* The cooldown store on its own: setCooldown and isInCooldown called on    *)
(* one router state while the clock advances (test/strategies.test.ts,     *)
(* "RouterState - cooldown").                                              *)

CooldownKeys == {ModelKey(TargetA), ModelKey(TargetB), <<"anthropic", "old-model">>}

\* duration arguments: undefined, well-formed strings, a string with no valid
\* unit, the empty string
CooldownDurations ==
    {Absent, Some(Dur(1, "m")), Some(Dur(5, "m")), Some(Dur(10, "m")), Some(Dur(5, "d")),
     Some(EmptyString)}

SetCooldownCall ==
    \E modelKey \in CooldownKeys, duration \in CooldownDurations :
      LET r == setCooldown(modelKey, duration, cooldowns, now) IN
      /\ hist.ops < MaxOps
      /\ UNCHANGED <<backoff, inflight>>
      /\ cooldowns' = r.cooldowns
      /\ last' = [LastNone EXCEPT !.op = IF r.ok THEN "setCooldown" ELSE "setCooldown.throw",
                                   !.key = modelKey, !.pre = cooldowns,
                                   !.duration = duration]
      /\ hist' = [Counted(hist) EXCEPT
                     !.lastSet = IF r.ok /\ Truthy(duration)
                                 THEN MapSet(@, modelKey, now + parseDuration(duration[1]).ms)
                                 ELSE @]
      /\ UNCHANGED <<loadedConfig, roundRobinIndex, metrics, sessionFallbackCursor,
                     sessionVirtualModel, now, fetchReq>>

IsInCooldownCall ==
    \E modelKey \in CooldownKeys :
      LET r == isInCooldown(modelKey, cooldowns, now) IN
      /\ hist.ops < MaxOps
      /\ UNCHANGED <<backoff, inflight>>
      /\ cooldowns' = r.cooldowns
      /\ last' = [LastNone EXCEPT !.op = "isInCooldown", !.key = modelKey,
                                   !.result = r.result, !.pre = cooldowns]
      /\ hist' = Counted(hist)
      /\ UNCHANGED <<loadedConfig, roundRobinIndex, metrics, sessionFallbackCursor,
                     sessionVirtualModel, now, fetchReq>>

CooldownNext ==
    \/ SetCooldownCall
    \/ IsInCooldownCall
    \/ Tick

SpecCooldown == Init /\ [][CooldownNext]_vars

\* C10: isInCooldown(key) answers true exactly when the store holds an entry
\* for key whose expiry is strictly later than the current time; an entry it
\* finds expired is removed; an entry still active is kept; no other key's
\* entry changes.
C10_IsInCooldownExact ==
    last.op = "isInCooldown" =>
        /\ last.result = (MapHas(last.pre, last.key) /\ last.pre[last.key] > now)
        /\ (MapHas(last.pre, last.key) /\ last.pre[last.key] <= now) =>
              ~MapHas(cooldowns, last.key)
        /\ (MapHas(last.pre, last.key) /\ last.pre[last.key] > now) =>
              (MapHas(cooldowns, last.key) /\ cooldowns[last.key] = last.pre[last.key])
        /\ \A k \in (DOMAIN last.pre \cup DOMAIN cooldowns) \ {last.key} :
              /\ MapHas(last.pre, k) /\ MapHas(cooldowns, k)
              /\ cooldowns[k] = last.pre[k]

\* isInCooldown found an entry expiring exactly now, answered false and removed
\* it, leaving another key's entry in place
C10_Witness ==
    /\ last.op = "isInCooldown"
    /\ MapHas(last.pre, last.key) /\ last.pre[last.key] = now
    /\ ~last.result
    /\ ~MapHas(cooldowns, last.key)
    /\ cooldowns # EmptyMap

\* a duration string of the form <magnitude><ms|s|m|h> was given
GivenDuration(duration) == Truthy(duration) /\ parseDuration(duration[1]).ok

\* C11: setCooldown(key, d) with a present duration d sets the entry's expiry to
\* exactly the current time + d whatever entry the key had before (no stacking,
\* no extension), and leaves every other key's entry as it was.
C11_SetCooldownOverwrites ==
    (last.op = "setCooldown" /\ GivenDuration(last.duration)) =>
        /\ MapHas(cooldowns, last.key)
        /\ cooldowns[last.key] = now + parseDuration(last.duration[1]).ms
        /\ \A k \in (DOMAIN last.pre \cup DOMAIN cooldowns) \ {last.key} :
              MapHas(last.pre, k) /\ MapHas(cooldowns, k) /\ cooldowns[k] = last.pre[k]

\* a second setCooldown during an active window whose expiry was later than
\* the new call time + the new duration
C11_Witness ==
    /\ last.op = "setCooldown" /\ GivenDuration(last.duration)
    /\ MapHas(last.pre, last.key)
    /\ last.pre[last.key] > now
    /\ last.pre[last.key] > cooldowns[last.key]

----------------------------------------------------------------------------
(* Expiry, absent cooldowns *)

\* the latest setCooldown on the key was made at t with duration d and the
\* clock has reached t + d
LapsedNow(k) == MapHas(hist.lastSet, k) /\ hist.lastSet[k] <= now

\* C12: once the clock has reached t + d for the latest setCooldown(key, d)
\* made at t, the target is selectable again: isInCooldown(key) answers false,
\* and a dispatch for a session without a cursor whose ordered list has that
\* target first selects it (index 0) and leaves no entry for it.
C12_LapsedCooldownSelectable ==
    /\ \A k \in DOMAIN hist.lastSet :
          LapsedNow(k) => ~isInCooldown(k, cooldowns, now).result
    /\ (/\ last.op = "chat.message" /\ last.handled /\ ~last.hadCursor
        /\ LapsedNow(ModelKey(last.targets[1]))) =>
           /\ last.exposed = ModelKey(last.targets[1])
           /\ last.exposedIdx = 0
           /\ sessionFallbackCursor[last.session] = 0
           /\ ~MapHas(cooldowns, last.exposed)

\* a fresh session's dispatch selected its first target, whose cooldown entry
\* was still stored and had just lapsed
C12_Witness ==
    /\ last.op = "chat.message" /\ last.handled /\ ~last.hadCursor
    /\ LapsedNow(ModelKey(last.targets[1]))
    /\ MapHas(last.pre, ModelKey(last.targets[1]))
    /\ last.exposedIdx = 0

\* the cooldown the profile a configured model references declares, if any
ProfileCooldown(vm) ==
    LET profile == resolveProfile(loadedConfig.virtualModels[vm], loadedConfig.strategyProfiles)
    IN IF IsPresent(profile) THEN profile[1].cooldown ELSE Absent

\* C13: when neither the model nor its referenced profile declares a cooldown,
\* the effective cooldown is absent and no failure-handling path (event hook,
\* fetch loop) adds a cooldown entry for the target it recorded the failure on.
C13_NoCooldownNoExclusion ==
    (/\ last.penalised # NoKey
     /\ ~IsPresent(loadedConfig.virtualModels[last.vm].cooldown)
     /\ ~IsPresent(ProfileCooldown(last.vm))) =>
        /\ ~IsPresent(EffectiveCooldown(last.vm))
        /\ ~MapHas(cooldowns, last.penalised)

----------------------------------------------------------------------------
(* executeWithBackoff on its own: one call, its attempts and its sleeps *)

\* the profiles the call is made with
BackoffPolicies ==
    {[max_retries |-> mr, backoff |-> b] :
        mr \in {Absent, Some(0), Some(1), Some(2)},
        b \in {Absent,
               Some(Backoff(Dur(100, "ms"), Some(2), Some(Dur(1, "s")))),
               Some(Backoff(Dur(500, "ms"), Some(3), Some(Dur(1, "s")))),
               Some(Backoff(Dur(2, "s"), Absent, Some(Dur(1, "s")))),
               Some(Backoff(Dur(100, "ms"), Some(1), Absent)),
               Some(Backoff(Dur(100, "ms"), Some(2), Some(Dur(1, "sec"))))}}

\* the fallbackOn arguments
BackoffTriggers == {<<AnyError>>, <<429, 503>>, <<503>>}

\* what one invocation of fn does: resolve with a status, or reject
AttemptOutcomes ==
    {[threw |-> FALSE, status |-> 200], [threw |-> FALSE, status |-> 400],
     [threw |-> FALSE, status |-> 429], [threw |-> FALSE, status |-> 503],
     [threw |-> TRUE, status |-> 0]}

\* executeWithBackoff(fn, profile, fallbackOn), lines 71-76: the locals are
\* initialised; a duration that does not parse throws before the loop
ExecuteWithBackoff ==
    \E profile \in BackoffPolicies, fallbackOn \in BackoffTriggers :
      LET initial == IF IsPresent(profile.backoff) THEN profile.backoff[1].initial
                     ELSE DefaultInitial
          multiplier == IF IsPresent(profile.backoff)
                        THEN Coalesce(profile.backoff[1].multiplier, Some(DefaultMultiplier))[1]
                        ELSE DefaultMultiplier
          max == IF IsPresent(profile.backoff)
                 THEN Coalesce(profile.backoff[1].max, Some(DefaultMax))[1]
                 ELSE DefaultMax
          parsed == parseDuration(initial).ok /\ parseDuration(max).ok
      IN
      /\ backoff.pc = "idle"
      /\ backoff' = [BackoffIdle EXCEPT
                        !.pc = IF parsed THEN "attempt" ELSE "done",
                        !.profile = Some(profile),
                        !.maxRetries = Coalesce(profile.max_retries, Some(0))[1],
                        !.fallbackOn = fallbackOn,
                        !.delay = parseDuration(initial).ms,
                        !.multiplier = multiplier,
                        !.maxDelay = parseDuration(max).ms,
                        !.result = IF parsed THEN Absent
                                   ELSE Some([kind |-> "threw", response |-> Absent,
                                              lastStatus |-> Absent, lastError |-> FALSE])]
      /\ UNCHANGED <<loadedConfig, cooldowns, roundRobinIndex, metrics, sessionFallbackCursor,
                     sessionVirtualModel, now, fetchReq, last, hist, inflight>>

\* one iteration of the loop from `await fn()` to the next await or the return
BackoffAttempt ==
    \E outcome \in AttemptOutcomes :
      LET matched == ~outcome.threw /\ shouldFallbackStatus(outcome.status, backoff.fallbackOn)
          failed == outcome.threw \/ matched
          lastStatus == IF matched THEN Some(outcome.status)
                        ELSE IF Len(backoff.tries) > 0
                             THEN backoff.tries[Len(backoff.tries)].lastStatus
                             ELSE Absent
          try == [threw |-> outcome.threw, status |-> outcome.status, matched |-> matched,
                  lastStatus |-> lastStatus]
          retry == failed /\ RetriesRemain(backoff.attempt, backoff.maxRetries)
      IN
      /\ backoff.pc = "attempt"
      /\ backoff' = [backoff EXCEPT
                        !.tries = Append(@, try),
                        !.pc = IF retry THEN "sleep" ELSE "done",
                        !.sleeps = IF retry THEN Append(@, backoff.delay) ELSE @,
                        !.result =
                           IF retry THEN Absent
                           ELSE IF ~failed
                           THEN Some([kind |-> "success", response |-> Some(outcome.status),
                                      lastStatus |-> Absent, lastError |-> FALSE])
                           ELSE Some([kind |-> "failure", response |-> Absent,
                                      lastStatus |-> lastStatus,
                                      lastError |-> outcome.threw])]
      /\ UNCHANGED <<loadedConfig, cooldowns, roundRobinIndex, metrics, sessionFallbackCursor,
                     sessionVirtualModel, now, fetchReq, last, hist, inflight>>

\* `await sleep(delay)` completes: the delay is scaled and the loop continues
BackoffSleep ==
    /\ backoff.pc = "sleep"
    /\ backoff' = [backoff EXCEPT
                      !.pc = "attempt",
                      !.attempt = @ + 1,
                      !.delay = NextDelay(@, backoff.multiplier, backoff.maxDelay)]
    /\ now' = now + backoff.sleeps[Len(backoff.sleeps)]
    /\ UNCHANGED <<loadedConfig, cooldowns, roundRobinIndex, metrics, sessionFallbackCursor,
                   sessionVirtualModel, fetchReq, last, hist, inflight>>

BackoffNext ==
    \/ ExecuteWithBackoff
    \/ BackoffAttempt
    \/ BackoffSleep

SpecBackoff == Init /\ [][BackoffNext]_vars

\* the fallback-trigger predicate as the specification states it
TriggerMatches(status, fallbackOn) ==
    IF fallbackOn = <<AnyError>> THEN status >= 400
    ELSE \E i \in 1..Len(fallbackOn) : fallbackOn[i] = status

\* the invocation threw or returned a trigger-matching status
TryFailed(try) == try.threw \/ TriggerMatches(try.status, backoff.fallbackOn)

BackoffDone == backoff.pc = "done"

\* C14 as stated: executeWithBackoff invokes fn at least once and at most
\* max_retries + 1 times, and exactly max_retries + 1 times when every attempt
\* throws or returns a trigger-matching status.
C14_AttemptsOneToMaxRetriesPlusOne ==
    /\ Len(backoff.tries) <= backoff.maxRetries + 1
    /\ BackoffDone =>
          /\ Len(backoff.tries) >= 1
          /\ (\A i \in 1..Len(backoff.tries) : TryFailed(backoff.tries[i])) =>
                Len(backoff.tries) = backoff.maxRetries + 1

\* C14 amended: a call whose backoff.initial and backoff.max (or their
\* defaults) parse as durations invokes fn at least once and at most
\* max_retries + 1 times, exactly max_retries + 1 times when every attempt
\* fails; a call with a duration that does not parse throws before invoking fn.
C14_AttemptsWhenDurationsParse ==
    /\ Len(backoff.tries) <= backoff.maxRetries + 1
    /\ (BackoffDone /\ backoff.result[1].kind # "threw") =>
          /\ Len(backoff.tries) >= 1
          /\ (\A i \in 1..Len(backoff.tries) : TryFailed(backoff.tries[i])) =>
                Len(backoff.tries) = backoff.maxRetries + 1
    /\ (BackoffDone /\ backoff.result[1].kind = "threw") => Len(backoff.tries) = 0

\* a call with max_retries = 2 made three attempts that all failed, a throw
\* and a trigger-matching status among them
C14_Witness ==
    /\ BackoffDone
    /\ backoff.maxRetries = 2
    /\ Len(backoff.tries) = 3
    /\ \A i \in 1..3 : TryFailed(backoff.tries[i])
    /\ \E i, j \in 1..3 : backoff.tries[i].threw /\ ~backoff.tries[j].threw
    /\ backoff.result[1].kind = "failure"

\* C15: the first attempt that returns a status not matching the trigger
\* predicate ends the loop: that response is the success result, it is the
\* last invocation, and no sleep follows it.
C15_NonMatchingStatusReturnsAtOnce ==
    \A i \in 1..Len(backoff.tries) :
       (~backoff.tries[i].threw /\ ~TriggerMatches(backoff.tries[i].status, backoff.fallbackOn)) =>
          /\ i = Len(backoff.tries)
          /\ BackoffDone
          /\ backoff.result = Some([kind |-> "success",
                                    response |-> Some(backoff.tries[i].status),
                                    lastStatus |-> Absent, lastError |-> FALSE])
          /\ Len(backoff.sleeps) = i - 1

\* after one failed attempt, the second attempt returned a non-matching status
\* and the call ended in success although a retry remained
C15_Witness ==
    /\ BackoffDone
    /\ backoff.maxRetries = 2
    /\ Len(backoff.tries) = 2
    /\ Len(backoff.sleeps) = 1
    /\ backoff.result[1].kind = "success"
    /\ backoff.result[1].response = Some(400)

\* C16: every delay executeWithBackoff sleeps for is at most backoff.max
\* (default 30s) and the delays within one call are non-decreasing.
C16_DelaysCappedNonDecreasing ==
    \A i \in 1..Len(backoff.sleeps) :
       /\ backoff.sleeps[i] <= backoff.maxDelay
       /\ i > 1 => backoff.sleeps[i - 1] <= backoff.sleeps[i]

\* C17: the answer shouldFallbackStatus gave for each returned status is: with
\* the any_error sentinel, true iff status >= 400; with an explicit set, true
\* iff the status is a member of the set.
C17_TriggerPredicate ==
    \A i \in 1..Len(backoff.tries) :
       ~backoff.tries[i].threw =>
          backoff.tries[i].matched =
             IF backoff.fallbackOn = <<AnyError>> THEN backoff.tries[i].status >= 400
             ELSE backoff.tries[i].status \in {backoff.fallbackOn[j] : j \in 1..Len(backoff.fallbackOn)}

\* under the sentinel a 400 matched and a 200 did not; under {429, 503} a 400
\* (an error status outside the set) did not match
C17_Witness ==
    /\ Len(backoff.tries) >= 2
    /\ \/ /\ backoff.fallbackOn = <<AnyError>>
          /\ backoff.tries[1].status = 400 /\ backoff.tries[1].matched /\ ~backoff.tries[1].threw
          /\ backoff.tries[2].status = 200 /\ ~backoff.tries[2].matched /\ ~backoff.tries[2].threw
       \/ /\ backoff.fallbackOn = <<429, 503>>
          /\ backoff.tries[1].status = 429 /\ backoff.tries[1].matched /\ ~backoff.tries[1].threw
          /\ backoff.tries[2].status = 400 /\ ~backoff.tries[2].matched /\ ~backoff.tries[2].threw

----------------------------------------------------------------------------
(* Config merge on its own: mergeWithProfile and shouldFallbackForError      *)
(* applied to one model under every combination of model-level and          *)
(* profile-level settings.                                                  *)

MergeModel == <<"virtual", "m">>

MergeConfigs ==
    {[virtualModels |->
         (MergeModel :> ModelConfig("sequential", ref, fb, cd, <<TargetA, TargetB>>)),
      strategyProfiles |-> ("default" :> Profile(1, pfb, pcd))] :
        ref \in {Absent, Some("default"), Some("missing")},
        fb \in {Absent, Some(<<503>>), Some(<<404>>), Some(<< >>)},
        cd \in {Absent, Some(Dur(1, "m"))},
        pfb \in {<<429>>, <<AnyError>>, <<404, 503>>},
        pcd \in {Absent, Some(Dur(5, "m"))}}

MergeInit ==
    /\ InitRouter
    /\ loadedConfig \in MergeConfigs

\* mergeWithProfile(config, resolveProfile(config, strategyProfiles))
MergeCall ==
    LET config == loadedConfig.virtualModels[MergeModel]
        profile == resolveProfile(config, loadedConfig.strategyProfiles)
    IN
    /\ last' = [LastNone EXCEPT !.op = "mergeWithProfile", !.vm = MergeModel,
                                 !.resolved = Some(mergeWithProfile(config, profile))]
    /\ UNCHANGED <<loadedConfig, cooldowns, roundRobinIndex, metrics, sessionFallbackCursor,
                   sessionVirtualModel, now, fetchReq, backoff, hist, inflight>>

\* shouldFallbackForError(error, config, strategyProfiles)
ShouldFallbackCall ==
    \E error \in EventErrors :
      /\ last' = [LastNone EXCEPT
                     !.op = "shouldFallbackForError", !.vm = MergeModel, !.error = Some(error),
                     !.fallback = shouldFallbackForError(error,
                                     loadedConfig.virtualModels[MergeModel],
                                     loadedConfig.strategyProfiles)]
      /\ UNCHANGED <<loadedConfig, cooldowns, roundRobinIndex, metrics, sessionFallbackCursor,
                     sessionVirtualModel, now, fetchReq, backoff, hist, inflight>>

MergeNext ==
    \/ MergeCall
    \/ ShouldFallbackCall

SpecMerge == MergeInit /\ [][MergeNext]_vars

\* the trigger list the specification prescribes for the loaded model: its own
\* if declared, else that of the profile it references (when the reference
\* resolves), else 429, 500, 503
PrescribedTrigger ==
    LET model == loadedConfig.virtualModels[MergeModel]
        profiles == loadedConfig.strategyProfiles
    IN IF Len(model.fallback_on) > 0 THEN model.fallback_on[1]
       ELSE IF Len(model.strategy_profile) > 0 /\ model.strategy_profile[1] \in DOMAIN profiles
            THEN profiles[model.strategy_profile[1]].fallback_on
            ELSE <<429, 500, 503>>

\* C18: the effective fallback trigger is the model's own fallback_on if it
\* declares one, else the referenced profile's, else exactly 429, 500, 503;
\* and an error with a status code triggers fallback under it exactly when the
\* trigger is the sentinel or lists the status.
C18_EffectiveTrigger ==
    /\ last.op = "mergeWithProfile" => last.resolved[1].fallback_on = PrescribedTrigger
    /\ (last.op = "shouldFallbackForError" /\ IsPresent(last.error[1].statusCode)) =>
          last.fallback = (\E i \in 1..Len(PrescribedTrigger) :
                              PrescribedTrigger[i] \in {AnyError, last.error[1].statusCode[1]})

\* a model that declares its own trigger and references a profile declaring a
\* different one gets its own
C18_Witness ==
    /\ last.op = "mergeWithProfile"
    /\ loadedConfig.virtualModels[MergeModel].fallback_on = Some(<<503>>)
    /\ loadedConfig.virtualModels[MergeModel].strategy_profile = Some("default")
    /\ loadedConfig.strategyProfiles["default"].fallback_on = <<AnyError>>
    /\ last.resolved[1].fallback_on = <<503>>

----------------------------------------------------------------------------
(* config/loader.ts: loadConfig and validateConfig on raw documents.  A raw  *)
(* document is what JSON.parse returned; every field may be missing, so     *)
(* every field of a raw model entry and of a raw target is an option.       *)

RawTarget(provider, model, weight) == [provider |-> provider, model |-> model, weight |-> weight]

RawModel(strategy, profile, targets) ==
    [strategy |-> strategy, strategy_profile |-> profile, fallback_on |-> Absent,
     cooldown |-> Absent, targets |-> targets]

RawA == RawTarget(Some("anthropic"), Some(<<"claude-opus-4">>), Some(3))
RawB == RawTarget(Some("anthropic"), Some(<<"claude-sonnet-4">>), Absent)

\* the model entries a document may hold under one name
RawEntries ==
    {RawModel(Some("sequential"), Absent, Some(<<RawA, RawB>>)),
     RawModel(Absent, Some("default"), Some(<<RawA, RawB>>)),
     RawModel(Some("weighted"), Absent, Some(<<RawA, RawA>>)),
     RawModel(Some("sequential"), Absent, Some(<< >>)),
     RawModel(Some("sequential"), Absent, Absent),
     RawModel(Some("sequential"), Absent,
              Some(<<RawTarget(Absent, Some(<<"gpt-4o">>), Absent), RawB>>)),
     RawModel(Some("round_robin"), Absent,
              Some(<<RawA, RawTarget(Some("openai"), Absent, Absent)>>)),
     RawModel(Some("sequential"), Some("missing"), Some(<<RawA, RawB>>)),
     RawModel(Some("weighted"), Absent, Some(<<RawA, RawB>>)),
     RawModel(Some("weighted"), Some("missing"), Some(<<RawB>>))}

RawNames == {"work-build", "work-plan"}

\* the documents: each name absent or bound to one entry; one profile "default"
RawConfigs ==
    {[models |-> [n \in names |-> e[n]],
      strategies |-> ("default" :> Profile(1, <<503>>, Some(Dur(1, "m"))))] :
        names \in SUBSET RawNames, e \in [RawNames -> RawEntries]}

\* loadConfig(raw): the LoadedConfig returned and the warnings written
loadConfig(raw) ==
    LET strategyProfiles == raw.strategies
        kept == {n \in DOMAIN raw.models :
                    IsPresent(raw.models[n].targets) /\ Len(raw.models[n].targets[1]) > 0}
    IN [config |->
           [virtualModels |->
               [id \in {<<"virtual", n>> : n \in kept} |->
                   [raw.models[id[2]] EXCEPT
                       !.strategy = IF IsPresent(@) THEN @ ELSE Some("sequential")]],
            strategyProfiles |-> strategyProfiles],
        warnings |->
           {[kind |-> "has no targets, skipping", name |-> n] : n \in (DOMAIN raw.models) \ kept}
           \cup {[kind |-> "strategy profile not found", name |-> n] :
                   n \in {x \in kept : /\ IsPresent(raw.models[x].strategy_profile)
                                       /\ ~MapHas(strategyProfiles,
                                                  raw.models[x].strategy_profile[1])}}]

\* validateConfig(config): the errors returned, one per target missing a field
\* and one per weighted model with a target lacking a weight (index 0)
validateConfig(config) ==
    LET targetsOf(id) == config.virtualModels[id].targets[1] IN
    UNION {{[kind |-> "target missing model or provider", modelId |-> id, index |-> i] :
               i \in {j \in 1..Len(targetsOf(id)) :
                        ~IsPresent(targetsOf(id)[j].model)
                        \/ ~IsPresent(targetsOf(id)[j].provider)}} :
           id \in DOMAIN config.virtualModels}
    \cup {[kind |-> "weighted strategy but not all targets have weights",
           modelId |-> id, index |-> 0] :
            id \in {x \in DOMAIN config.virtualModels :
                      /\ config.virtualModels[x].strategy = Some("weighted")
                      /\ \E j \in 1..Len(targetsOf(x)) : ~IsPresent(targetsOf(x)[j].weight)}}

\* config hook, line 106: loadedConfig = loadConfig(JSON.parse(...))
LoadConfigCall ==
    \E raw \in RawConfigs :
      /\ last.op = "none"
      /\ loadedConfig' = loadConfig(raw).config
      /\ last' = [LastNone EXCEPT !.op = "loadConfig", !.raw = Some(raw),
                                   !.warnings = loadConfig(raw).warnings]
      /\ UNCHANGED <<cooldowns, roundRobinIndex, metrics, sessionFallbackCursor,
                     sessionVirtualModel, now, fetchReq, backoff, hist, inflight>>

\* config hook, lines 108-111: validateConfig(loadedConfig), each error warned
ValidateConfigCall ==
    /\ last.op = "loadConfig"
    /\ last' = [last EXCEPT !.op = "validateConfig", !.errors = validateConfig(loadedConfig)]
    /\ UNCHANGED <<loadedConfig, cooldowns, roundRobinIndex, metrics, sessionFallbackCursor,
                   sessionVirtualModel, now, fetchReq, backoff, hist, inflight>>

LoadNext ==
    \/ LoadConfigCall
    \/ ValidateConfigCall

SpecLoad == Init /\ [][LoadNext]_vars

\* the entry is invalid: no or an empty target list, a target missing provider
\* or model, a reference to a profile the document does not define, or
\* weighted strategy with a target lacking a weight
Offending(raw, n) ==
    LET model == raw.models[n] IN
    \/ ~IsPresent(model.targets)
    \/ Len(model.targets[1]) = 0
    \/ \E j \in 1..Len(model.targets[1]) :
          ~IsPresent(model.targets[1][j].provider) \/ ~IsPresent(model.targets[1][j].model)
    \/ IsPresent(model.strategy_profile) /\ model.strategy_profile[1] \notin DOMAIN raw.strategies
    \/ /\ model.strategy = Some("weighted")
       /\ \E j \in 1..Len(model.targets[1]) : ~IsPresent(model.targets[1][j].weight)

\* a warning or an error names the entry
Reported(n) ==
    \/ \E w \in last.warnings : w.name = n
    \/ \E e \in last.errors : e.modelId = <<"virtual", n>>

\* C19: once a document is loaded and validated, each offending entry is
\* absent from the usable virtual models and a warning names it, and each valid
\* entry is among the usable virtual models.
C19_OffendingEntriesExcluded ==
    last.op = "validateConfig" =>
        \A n \in DOMAIN last.raw[1].models :
           /\ Offending(last.raw[1], n) =>
                 /\ ~MapHas(loadedConfig.virtualModels, <<"virtual", n>>)
                 /\ Reported(n)
           /\ ~Offending(last.raw[1], n) =>
                 MapHas(loadedConfig.virtualModels, <<"virtual", n>>)

----------------------------------------------------------------------------
(* resolveModel *)

\* provider id and model id with a redundant "<provider>/" prefix removed, as
\* the specification describes the result
StrippedKey(t) ==
    IF Len(t.model) > 1 /\ Head(t.model) = t.provider
    THEN <<t.provider>> \o SubSeq(t.model, 2, Len(t.model))
    ELSE <<t.provider>> \o t.model

\* the indices of the list whose target was not in cooldown when the most
\* recent operation began
ViableBefore(targets) ==
    {j \in 0..(Len(targets) - 1) : ~(MapGet(last.pre, StrippedKey(targets[j + 1]), 0) > now)}

\* C20: resolveModel returns the first target of the strategy's ordered list
\* that is not in cooldown, as provider id and prefix-stripped model id, and
\* returns null exactly when the virtual model id is unknown or every target of
\* the list is in cooldown.
C20_ResolveModelFirstViable ==
    last.op = "resolveModel" =>
        /\ ~MapHas(loadedConfig.virtualModels, last.vm) => last.exposed = NoKey
        /\ MapHas(loadedConfig.virtualModels, last.vm) =>
              /\ SameMultiset(last.targets, loadedConfig.virtualModels[last.vm].targets)
              /\ loadedConfig.virtualModels[last.vm].strategy \in {"sequential", "priority"} =>
                    last.targets = loadedConfig.virtualModels[last.vm].targets
              /\ ViableBefore(last.targets) # {} =>
                    /\ last.exposedIdx = Least(ViableBefore(last.targets))
                    /\ last.exposed = StrippedKey(last.targets[last.exposedIdx + 1])
              /\ ViableBefore(last.targets) = {} => last.exposed = NoKey

\* resolveModel skipped a first target in cooldown and returned a later one
C20_Witness ==
    /\ last.op = "resolveModel"
    /\ last.exposedIdx >= 1
    /\ MapGet(last.pre, StrippedKey(last.targets[1]), 0) > now
    /\ last.exposed = StrippedKey(last.targets[last.exposedIdx + 1])

----------------------------------------------------------------------------
(* Dispatch, session binding *)

\* the most recent operation was a dispatch of a configured virtual model for
\* a session that had no cursor entry
FreshDispatch == last.op = "chat.message" /\ last.handled /\ ~last.hadCursor

\* C21: on a session's first dispatch the target resolved is the one at the
\* smallest index of the ordered list that was not in cooldown when the
\* dispatch began, that index is recorded as the session's cursor, and it is
\* index 0 when no target of the list was in cooldown.
C21_FirstDispatchFirstViable ==
    (FreshDispatch /\ ViableBefore(last.targets) # {}) =>
        LET j == Least(ViableBefore(last.targets)) IN
        /\ last.exposedIdx = j
        /\ last.exposed = StrippedKey(last.targets[j + 1])
        /\ MapHas(sessionFallbackCursor, last.session)
        /\ sessionFallbackCursor[last.session] = j
        /\ (\A i \in 1..Len(last.targets) :
               ~(MapGet(last.pre, StrippedKey(last.targets[i]), 0) > now)) => j = 0

\* a first dispatch recorded index 2: the first two targets were in cooldown
C21_Witness ==
    /\ FreshDispatch
    /\ last.exposedIdx = 2
    /\ sessionFallbackCursor[last.session] = 2
    /\ MapGet(last.pre, StrippedKey(last.targets[1]), 0) > now
    /\ MapGet(last.pre, StrippedKey(last.targets[2]), 0) > now

\* C22: while a session's cursor entry exists the virtual model id bound to
\* the session does not change: a dispatch of a session that has a cursor
\* entry, and keeps one, leaves the session bound to the id it was bound to.
C22_BindingFixedWhileCursorExists ==
    (/\ last.op = "chat.message" /\ last.handled /\ last.hadCursor
     /\ MapHas(sessionFallbackCursor, last.session)) =>
        /\ last.preVm = last.vm
        /\ sessionVirtualModel[last.session] = last.preVm

----------------------------------------------------------------------------
(* selectTargets: frame and order *)

SelectedRoundRobin(id) ==
    /\ last.op = "selectTargets" /\ last.vm = id
    /\ loadedConfig.virtualModels[id].strategy = "round_robin"

\* C23: a selectTargets call for one model id leaves the stored round-robin
\* cursor of every other id as it was (absent stays absent), and the rotation
\* an id is given depends only on how many calls that id itself has had.
C23_IndependentCursors ==
    /\ [][\A b \in SelIds :
            (last'.op = "selectTargets" /\ last'.vm # b) =>
                /\ MapHas(roundRobinIndex', b) = MapHas(roundRobinIndex, b)
                /\ MapGet(roundRobinIndex', b, 0) = MapGet(roundRobinIndex, b, 0)]_vars
    /\ [](\A b \in SelIds :
            SelectedRoundRobin(b) =>
                LET ts == loadedConfig.virtualModels[b].targets IN
                last.targets = Rotation(ts, (MapGet(hist.calls, b, 0) - 1) % Len(ts)))

\* model-b's first call came after two calls for model-a and still began at
\* the first target
C23_Witness ==
    /\ SelectedRoundRobin(<<"virtual", "model-b">>)
    /\ MapGet(hist.calls, <<"virtual", "model-a">>, 0) = 2
    /\ MapGet(hist.calls, <<"virtual", "model-b">>, 0) = 1
    /\ Len(last.targets) = 3
    /\ last.targets = loadedConfig.virtualModels[last.vm].targets
    /\ roundRobinIndex[<<"virtual", "model-a">>] = 2
    /\ roundRobinIndex[<<"virtual", "model-b">>] = 1

\* C24: every stored round-robin cursor is a valid index of its model's
\* target list: 0 <= v < number of targets.
C24_CursorInRange ==
    \A id \in DOMAIN roundRobinIndex :
        /\ roundRobinIndex[id] >= 0
        /\ roundRobinIndex[id] < Len(loadedConfig.virtualModels[id].targets)

\* the last target's turn has been served and the cursor wrapped to 0
C24_Witness ==
    /\ SelectedRoundRobin(last.vm)
    /\ Len(last.targets) = 3
    /\ MapGet(hist.calls, last.vm, 0) = 3
    /\ last.targets[1] = loadedConfig.virtualModels[last.vm].targets[3]
    /\ roundRobinIndex[last.vm] = 0

\* C25: a selectTargets call leaves config.targets as it was under every
\* strategy, and under sequential, priority, random and weighted it leaves the
\* round-robin cursors, the cooldowns and the metrics unchanged.
C25_SelectFrame ==
    [][last'.op = "selectTargets" =>
          /\ loadedConfig' = loadedConfig
          /\ loadedConfig.virtualModels[last'.vm].strategy # "round_robin" =>
                 UNCHANGED <<roundRobinIndex, cooldowns, metrics>>]_vars

\* a random call returned an order other than the configured one, which the
\* configuration still holds, and no cursor was stored
C25_Witness ==
    /\ last.op = "selectTargets"
    /\ loadedConfig.virtualModels[last.vm].strategy = "random"
    /\ loadedConfig.virtualModels[last.vm].targets = <<TargetA, TargetB, TargetC>>
    /\ last.targets = <<TargetC, TargetB, TargetA>>
    /\ roundRobinIndex = EmptyMap

\* C26: under sequential and priority selectTargets returns the targets in
\* the configured order, and for every configuration and every router state
\* reached the two strategies return the same list.
C26_SequentialPriorityIdentity ==
    /\ (last.op = "selectTargets"
        /\ loadedConfig.virtualModels[last.vm].strategy \in {"sequential", "priority"}) =>
           last.targets = loadedConfig.virtualModels[last.vm].targets
    /\ \A id \in SelIds, ts \in SelTargetLists :
          LET rnd == [perm |-> << >>, draws |-> << >>]
              seq == selectTargets(id, ModelConfig("sequential", Absent, Absent, Absent, ts),
                                   roundRobinIndex, rnd)
              pri == selectTargets(id, ModelConfig("priority", Absent, Absent, Absent, ts),
                                   roundRobinIndex, rnd)
          IN seq.result = pri.result /\ seq.result = ts

\* a priority call on a list whose weights are not in descending order
\* returned it as configured
C26_Witness ==
    /\ last.op = "selectTargets"
    /\ loadedConfig.virtualModels[last.vm].strategy = "priority"
    /\ last.targets = <<TargetC, TargetA, TargetB>>
    /\ MapGet(hist.calls, last.vm, 0) = 2

----------------------------------------------------------------------------
(* setCooldown: absent and malformed durations *)

SetCooldownReturned == last.op \in {"setCooldown", "setCooldown.throw"}

\* C27: setCooldown with an absent duration is a no-op: the cooldown store,
\* the entry the key already had included, is as it was before the call.
C27_AbsentDurationNoOp ==
    (SetCooldownReturned /\ ~IsPresent(last.duration)) =>
        /\ last.op = "setCooldown"
        /\ cooldowns = last.pre

\* setCooldown(key, undefined) on a key with an active entry, another key
\* holding an entry too
C27_Witness ==
    /\ last.op = "setCooldown" /\ ~IsPresent(last.duration)
    /\ MapHas(cooldowns, last.key) /\ cooldowns[last.key] > now
    /\ \E k \in DOMAIN cooldowns : k # last.key

\* C29: setCooldown with a string that is not <magnitude><ms|s|m|h> raises
\* an error and leaves the cooldown store unchanged.
C29_MalformedDurationRaises ==
    (/\ SetCooldownReturned
     /\ IsPresent(last.duration)
     /\ ~parseDuration(last.duration[1]).ok) =>
        /\ last.op = "setCooldown.throw"
        /\ cooldowns = last.pre

----------------------------------------------------------------------------
(* The metrics helpers on their own: recordSuccess, recordFailure and       *)
(* recordFallback called in any order on one router state.                  *)

MetricsKeys == {ModelKey(TargetA), ModelKey(TargetC)}

\* latencyMs arguments
Latencies == {0, 120, 800}

NoCalls == [success |-> 0, failure |-> 0, fallback |-> 0]

RecordSuccessCall ==
    \E modelKey \in MetricsKeys, latencyMs \in Latencies :
      /\ hist.ops < MaxOps
      /\ metrics' = recordSuccess(modelKey, latencyMs, metrics)
      /\ last' = [LastNone EXCEPT !.op = "recordSuccess", !.key = modelKey]
      /\ hist' = [Counted(hist) EXCEPT
                     !.recorded = MapSet(@, modelKey,
                                         [MapGet(@, modelKey, NoCalls) EXCEPT !.success = @ + 1])]
      /\ UNCHANGED <<loadedConfig, cooldowns, roundRobinIndex, sessionFallbackCursor,
                     sessionVirtualModel, now, fetchReq, backoff, inflight>>

RecordFailureCall ==
    \E modelKey \in MetricsKeys :
      /\ hist.ops < MaxOps
      /\ metrics' = recordFailure(modelKey, metrics)
      /\ last' = [LastNone EXCEPT !.op = "recordFailure", !.key = modelKey]
      /\ hist' = [Counted(hist) EXCEPT
                     !.recorded = MapSet(@, modelKey,
                                         [MapGet(@, modelKey, NoCalls) EXCEPT !.failure = @ + 1])]
      /\ UNCHANGED <<loadedConfig, cooldowns, roundRobinIndex, sessionFallbackCursor,
                     sessionVirtualModel, now, fetchReq, backoff, inflight>>

RecordFallbackCall ==
    \E modelKey \in MetricsKeys :
      /\ hist.ops < MaxOps
      /\ metrics' = recordFallback(modelKey, metrics)
      /\ last' = [LastNone EXCEPT !.op = "recordFallback", !.key = modelKey]
      /\ hist' = [Counted(hist) EXCEPT
                     !.recorded = MapSet(@, modelKey,
                                         [MapGet(@, modelKey, NoCalls) EXCEPT !.fallback = @ + 1])]
      /\ UNCHANGED <<loadedConfig, cooldowns, roundRobinIndex, sessionFallbackCursor,
                     sessionVirtualModel, now, fetchReq, backoff, inflight>>

MetricsNext ==
    \/ RecordSuccessCall
    \/ RecordFailureCall
    \/ RecordFallbackCall

SpecMetrics == Init /\ [][MetricsNext]_vars

MetricsOf(mt, k) == MapGet(mt, k, ZeroMetrics)

\* C28: after any sequence of recordSuccess, recordFailure and recordFallback
\* calls, for every key requests = successes + failures and successes,
\* failures and fallbacks are the numbers of recordSuccess, recordFailure and
\* recordFallback calls for the key; a recordFallback call changes neither
\* requests nor failures; and no call lowers any counter.
C28_MetricsCounters ==
    /\ [](\A k \in MetricsKeys :
            LET m == MetricsOf(metrics, k)
                c == MapGet(hist.recorded, k, NoCalls)
            IN /\ m.requests = m.successes + m.failures
               /\ m.successes = c.success
               /\ m.failures = c.failure
               /\ m.fallbacks = c.fallback)
    /\ [][\A k \in MetricsKeys :
            LET m == MetricsOf(metrics, k)
                n == MetricsOf(metrics', k)
            IN /\ n.requests >= m.requests /\ n.successes >= m.successes
               /\ n.failures >= m.failures /\ n.fallbacks >= m.fallbacks
               /\ n.totalLatencyMs >= m.totalLatencyMs
               /\ last'.op = "recordFallback" =>
                     (n.requests = m.requests /\ n.failures = m.failures)]_vars

\* a key with one success, one failure and two fallbacks, the last call a
\* recordFallback
C28_Witness ==
    /\ last.op = "recordFallback"
    /\ MapHas(metrics, last.key)
    /\ metrics[last.key].requests = 2
    /\ metrics[last.key].successes = 1
    /\ metrics[last.key].failures = 1
    /\ metrics[last.key].fallbacks = 2
    /\ metrics[last.key].totalLatencyMs = 800

----------------------------------------------------------------------------
(* Cancellation during a backoff delay *)

\* the caller cancels its request while `await sleep(delay)` is pending.
\* executeWithBackoff takes no abort signal and sleep() is a bare setTimeout,
\* so nothing of the call's state changes; the instant is kept as history.
BackoffCancel ==
    /\ backoff.pc = "sleep"
    /\ ~IsPresent(backoff.cancelled)
    /\ backoff' = [backoff EXCEPT !.cancelled = Some(Len(backoff.tries))]
    /\ UNCHANGED <<loadedConfig, cooldowns, roundRobinIndex, metrics, sessionFallbackCursor,
                   sessionVirtualModel, now, fetchReq, last, hist, inflight>>

BackoffCancelNext ==
    \/ BackoffNext
    \/ BackoffCancel

SpecBackoffCancel == Init /\ [][BackoffCancelNext]_vars

\* C30: once the request has been cancelled during a backoff delay the
\* attempt function is not invoked again.
C30_CancelStopsRetries ==
    IsPresent(backoff.cancelled) => Len(backoff.tries) = backoff.cancelled[1]

----------------------------------------------------------------------------
(* Events and dispatches the hooks ignore *)

\* the step is an event hook call whose event is not a session.error or whose
\* session is bound to no virtual model
IgnoredEventStep ==
    /\ last'.op = "event"
    /\ \/ last'.event[1].type # "session.error"
       \/ ~MapHas(sessionVirtualModel, last'.session)

\* C31: an event that is not a session.error, or a session.error whose
\* session has no bound virtual model, changes nothing: cooldowns, metrics,
\* round-robin cursors and session cursors are as before and nothing is
\* re-prompted.
C31_IgnoredEventChangesNothing ==
    [][IgnoredEventStep =>
          /\ UNCHANGED <<cooldowns, metrics, roundRobinIndex, sessionFallbackCursor,
                         sessionVirtualModel>>
          /\ ~last'.handled
          /\ last'.exposed = NoKey]_vars

\* an event of another type arrived for a session that is bound, has a cursor
\* and a target in cooldown, and carried a 503 error
C31_Witness ==
    /\ last.op = "event" /\ ~last.handled
    /\ last.event[1].type = "session.updated"
    /\ MapHas(sessionVirtualModel, last.session)
    /\ MapGet(sessionFallbackCursor, last.session, 0) = 1
    /\ cooldowns # EmptyMap

\* the model names a configured virtual alias: provider "virtual" and a
\* configured name, or a full id "virtual/<name>" that is configured
ConfiguredAlias(model) ==
    \/ /\ model.providerID = "virtual"
       /\ MapHas(loadedConfig.virtualModels, <<"virtual">> \o model.modelID)
    \/ /\ model.providerID # "virtual"
       /\ Len(model.modelID) > 1 /\ model.modelID[1] = "virtual"
       /\ MapHas(loadedConfig.virtualModels, model.modelID)

\* the step is a chat.message call whose model is not a configured virtual alias
NonVirtualDispatchStep ==
    /\ last'.op = "chat.message"
    /\ ~ConfiguredAlias(last'.model[1])

\* C32: a dispatch whose model is not a configured virtual alias is a no-op:
\* the outgoing model is not rewritten, no session binding and no session
\* cursor is created or changed, and no round-robin cursor advances.
C32_NonVirtualDispatchNoOp ==
    [][NonVirtualDispatchStep =>
          /\ UNCHANGED <<sessionVirtualModel, sessionFallbackCursor, roundRobinIndex,
                         cooldowns, metrics>>
          /\ ~last'.handled
          /\ last'.exposed = NoKey]_vars

\* with a virtual model of the same name configured, a dispatch for
\* anthropic/work-build left the session unbound
C32_Witness ==
    /\ last.op = "chat.message" /\ ~last.handled
    /\ last.model[1] = [providerID |-> "anthropic", modelID |-> <<"work-build">>]
    /\ MapHas(loadedConfig.virtualModels, WorkBuild)
    /\ ~MapHas(sessionVirtualModel, last.session)
    /\ sessionVirtualModel # EmptyMap

----------------------------------------------------------------------------
(* Which failure reports trigger fallback handling *)

\* the effective trigger set of a configured virtual model
EffectiveTrigger(vm) ==
    mergeWithProfile(loadedConfig.virtualModels[vm],
                     resolveProfile(loadedConfig.virtualModels[vm],
                                    loadedConfig.strategyProfiles)).fallback_on

\* the trigger set holds any_error, or lists the report's status code, or the
\* error is a ProviderAuthError
TriggersFallback(error, trigger) ==
    \/ \E i \in 1..Len(trigger) : trigger[i] = AnyError
    \/ /\ IsPresent(error.statusCode)
       /\ \E i \in 1..Len(trigger) : trigger[i] = error.statusCode[1]
    \/ error.name = "ProviderAuthError"

\* the step is an event hook call with a session.error carrying an error for a
\* session bound to a configured virtual model
BoundReportStep ==
    /\ last'.op = "event"
    /\ last'.event[1].type = "session.error"
    /\ IsPresent(last'.event[1].error)
    /\ MapHas(sessionVirtualModel, last'.session)
    /\ MapHas(loadedConfig.virtualModels, sessionVirtualModel[last'.session])

\* C37: a session.error report for a bound session is handled exactly when the
\* effective trigger set contains any_error, or lists the report's status
\* code, or the error is named ProviderAuthError.  Handling records a failure
\* and a fallback on the target at the session's cursor, applies the effective
\* cooldown to it, and moves the cursor forward (or removes it on exhaustion);
\* a report that is not handled leaves cooldowns, metrics and the session
\* cursors unchanged and re-prompts nothing.
C37_ReportTriggersFallback ==
    [][BoundReportStep =>
        LET s == last'.session
            vm == sessionVirtualModel[s]
            c == MapGet(sessionFallbackCursor, s, 0)
            ts == last'.targets
        IN IF TriggersFallback(last'.event[1].error[1], EffectiveTrigger(vm))
           THEN /\ last'.handled
                /\ c < Len(ts) =>
                     LET key == ModelKey(ts[c + 1]) IN
                     /\ MetricsOf(metrics', key).failures = MetricsOf(metrics, key).failures + 1
                     /\ MetricsOf(metrics', key).fallbacks = MetricsOf(metrics, key).fallbacks + 1
                     /\ IsPresent(EffectiveCooldown(vm)) =>
                           /\ MapHas(cooldowns', key)
                           /\ cooldowns'[key] = now + parseDuration(EffectiveCooldown(vm)[1]).ms
                /\ \/ ~MapHas(sessionFallbackCursor', s)
                   \/ sessionFallbackCursor'[s] > c
           ELSE /\ ~last'.handled
                /\ UNCHANGED <<cooldowns, metrics, sessionFallbackCursor>>
                /\ last'.exposed = NoKey]_vars

\* a ProviderAuthError without a status code was handled under a trigger set
\* that holds neither any_error nor every status: the failure is recorded, the
\* target cooled down and the cursor moved to 1
C37_Witness ==
    /\ last.op = "event" /\ last.handled
    /\ last.event[1].error[1].name = "ProviderAuthError"
    /\ EffectiveTrigger(last.vm) = <<503>>
    /\ last.penalised # NoKey
    /\ MetricsOf(metrics, last.penalised).failures = 1
    /\ MetricsOf(metrics, last.penalised).fallbacks = 1
    /\ MapHas(cooldowns, last.penalised)
    /\ MapGet(sessionFallbackCursor, last.session, 0) = 1

----------------------------------------------------------------------------
(* executeWithBackoff: the delay sequence and the result on exhaustion *)

\* the policy the specification prescribes for a profile, in milliseconds:
\* backoff.initial (default 500ms), backoff.multiplier (default 2),
\* backoff.max (default 30s)
PrescribedPolicy(profile) ==
    IF Len(profile.backoff) = 0
    THEN [initial |-> 500, multiplier |-> 2, max |-> 30000]
    ELSE LET b == profile.backoff[1] IN
         [initial |-> parseDuration(b.initial).ms,
          multiplier |-> IF Len(b.multiplier) = 0 THEN 2 ELSE b.multiplier[1],
          max |-> IF Len(b.max) = 0 THEN 30000 ELSE parseDuration(b.max[1]).ms]

BackoffRan == IsPresent(backoff.profile) /\ backoff.pc # "idle"
                 /\ ~(BackoffDone /\ backoff.result[1].kind = "threw")

\* C35: within one call the delay slept before the first retry is
\* backoff.initial (default 500ms) and every later delay is min(previous
\* delay x backoff.multiplier, backoff.max) (defaults 2 and 30s); with
\* {initial 100ms, multiplier 2, max 1s, max_retries 2} and every attempt
\* failing the delays are 100ms then 200ms; no delay follows the final attempt.
C35_DelaySequence ==
    BackoffRan =>
        LET pol == PrescribedPolicy(backoff.profile[1]) IN
        /\ \A i \in 1..Len(backoff.sleeps) :
              backoff.sleeps[i] =
                 IF i = 1 THEN pol.initial
                 ELSE Min(backoff.sleeps[i - 1] * pol.multiplier, pol.max)
        /\ BackoffDone => Len(backoff.sleeps) = Len(backoff.tries) - 1
        /\ (/\ BackoffDone
            /\ backoff.profile[1] =
                  [max_retries |-> Some(2),
                   backoff |-> Some(Backoff(Dur(100, "ms"), Some(2), Some(Dur(1, "s"))))]
            /\ \A i \in 1..Len(backoff.tries) : TryFailed(backoff.tries[i])) =>
               backoff.sleeps = <<100, 200>>

\* a call with {initial 500ms, multiplier 3, max 1s, max_retries 2} failed
\* three times and slept 500ms, then the capped 1000ms
C35_Witness ==
    /\ BackoffDone
    /\ Len(backoff.tries) = 3
    /\ backoff.sleeps = <<500, 1000>>
    /\ backoff.result[1].kind = "failure"

\* C36: a call that has exhausted its attempts returns a failure without a
\* response; a final attempt that returned a trigger-matching status gives the
\* result that status as lastStatus, a final attempt that threw gives it the
\* thrown error as lastError; no failure is returned while retries remain, and
\* a success is only returned for a response whose status does not match the
\* trigger.
C36_ExhaustionReturnsFailure ==
    (BackoffDone /\ Len(backoff.tries) > 0) =>
        LET n == Len(backoff.tries)
            final == backoff.tries[n]
            res == backoff.result[1]
        IN
        /\ (TryFailed(final) /\ n = backoff.maxRetries + 1) => res.kind = "failure"
        /\ res.kind = "failure" =>
              /\ n = backoff.maxRetries + 1
              /\ TryFailed(final)
              /\ res.response = Absent
              /\ ~final.threw => (res.lastStatus = Some(final.status) /\ ~res.lastError)
              /\ final.threw => res.lastError
        /\ res.kind = "success" =>
              /\ ~final.threw
              /\ ~TriggerMatches(final.status, backoff.fallbackOn)
              /\ res.response = Some(final.status)

\* with max_retries = 1 the first attempt returned 503 and the second threw:
\* the failure carries the thrown error and the earlier status
C36_Witness ==
    /\ BackoffDone
    /\ backoff.maxRetries = 1
    /\ Len(backoff.tries) = 2
    /\ ~backoff.tries[1].threw /\ backoff.tries[1].status = 503
    /\ backoff.tries[2].threw
    /\ backoff.result[1].kind = "failure"
    /\ backoff.result[1].lastError
    /\ backoff.result[1].lastStatus = Some(503)

----------------------------------------------------------------------------
(* The fetch path *)

FetchStep == last.op \in {"fetch.attempt", "fetch.response", "fetch.exhausted"}

\* the forwarded request threw or returned 429, 502 or 503
FetchFailed == IsPresent(last.outcome)
                 /\ (last.outcome[1].threw \/ last.outcome[1].status \in {429, 502, 503})

\* the index the fetch loop went on from: past the target just attempted, or
\* the start of the list
FetchFrom == IF IsPresent(last.outcome) THEN last.preCursor + 1 ELSE 0

\* The fetch path on its own: requests arrive while the clock advances, and a
\* forwarded request that is in flight always settles (with a response or a
\* throw), whatever else has been done.
FetchNext ==
    \/ ConfigHook
    \/ FetchStart
    \/ FetchSettle
    \/ Tick

SpecFetch == Init /\ [][FetchNext]_vars /\ WF_vars(FetchSettle)

\* after each step of a fetch: where the loop stands and what it did
FetchLoopStep ==
    /\ fetchReq.pc = "await" => fetchReq.i < Len(fetchReq.targets)
    /\ FetchStep =>
         /\ last.op = "fetch.attempt" =>
               /\ ViableFrom(last.targets, FetchFrom) # {}
               /\ last.exposedIdx = Least(ViableFrom(last.targets, FetchFrom))
               /\ fetchReq.pc = "await" /\ fetchReq.i = last.exposedIdx
               /\ fetchReq.targets = last.targets
         /\ last.op = "fetch.exhausted" =>
               /\ ViableFrom(last.targets, FetchFrom) = {}
               /\ fetchReq.pc = "idle"
         /\ last.op = "fetch.response" =>
               /\ IsPresent(last.outcome) /\ ~FetchFailed
               /\ fetchReq.pc = "idle"
         /\ FetchFailed =>
               /\ last.op # "fetch.response"
               /\ last.penalised = ModelKey(last.targets[last.preCursor + 1])
               /\ InCooldownNow(last.penalised)
         /\ (IsPresent(last.outcome) /\ ~FetchFailed) => last.op = "fetch.response"

----------------------------------------------------------------------------
(* Handlers running concurrently.  A chat.message or event invocation runs
   without interruption up to its `await import("./router/strategies.js")`,
   is suspended there, and runs without interruption again from the
   resumption to its end (chat.message) or to the awaited session.prompt
   (event).  Other invocations run in between. *)

\* the sessions, models and failure events of the concurrent invocations
ConcSessions == {"s1"}

ConcModels == {m \in ChatModels : m.providerID = "virtual"}

ConcEvents == {ev \in Events : /\ ev.type = "session.error"
                               /\ ev.sessionID \in {Some(s) : s \in ConcSessions}
                               /\ ev.error = Some([name |-> "APIError", statusCode |-> Some(503)])}

\* the round-robin map selectTargets reads with the cursor captured when the
\* handler suspended instead of the one stored when it runs
StateAtResume_stale(live, atSuspend) == atSuspend

\* the round-robin map selectTargets reads: the handler passes the router
\* state by reference, so the call reads the map as it stands when it runs
StateAtResume(live, atSuspend) == live

\* "chat.message" hook up to the await: the alias test, the binding, and the
\* read of the session's cursor
ChatBegin ==
    /\ hist.ops < MaxOps
    /\ \E h \in Handlers, sessionID \in ConcSessions, model \in ConcModels :
         LET virtualModelID == ChatVirtualModelID(model) IN
         /\ inflight[h].pc = "idle"
         /\ IF ~IsPresent(virtualModelID) \/ ~MapHas(loadedConfig.virtualModels, virtualModelID[1])
            THEN /\ last' = [LastNone EXCEPT !.op = "chat.begin", !.session = sessionID,
                                         !.model = Some(model)]
                 /\ UNCHANGED <<sessionVirtualModel, inflight>>
            ELSE /\ sessionVirtualModel' = MapSet(sessionVirtualModel, sessionID, virtualModelID[1])
                 /\ inflight' = [inflight EXCEPT ![h] =
                        [pc |-> "chat.message", session |-> sessionID, vm |-> virtualModelID[1],
                         cursor |-> MapGet(sessionFallbackCursor, sessionID, 0),
                         roundRobinIndex |-> roundRobinIndex]]
                 /\ last' = [LastNone EXCEPT !.op = "chat.begin", !.session = sessionID,
                                !.vm = virtualModelID[1], !.handled = TRUE,
                                !.model = Some(model)]
    /\ hist' = Counted(hist)
    /\ UNCHANGED <<loadedConfig, cooldowns, roundRobinIndex, metrics,
                   sessionFallbackCursor, now, fetchReq, backoff>>

\* "chat.message" hook from the resumption: selectTargets, the scan from the
\* cursor read before the await, and the store of the index found
ChatResume ==
    \E h \in Handlers :
      LET me == inflight[h]
          sessionID == me.session
          config == loadedConfig.virtualModels[me.vm]
      IN
      /\ me.pc = "chat.message"
      /\ \E rnd \in RandomSources(config) :
           LET sel == selectTargets(me.vm, config,
                                    StateAtResume(roundRobinIndex, me.roundRobinIndex), rnd)
               targets == sel.result
               scan == ScanViable(targets, me.cursor, cooldowns, now)
               found == scan.idx >= 0
               key == IF found THEN ModelKey(targets[scan.idx + 1]) ELSE NoKey
           IN
           /\ roundRobinIndex' = sel.roundRobinIndex
           /\ cooldowns' = scan.cooldowns
           /\ sessionFallbackCursor' =
                 IF found THEN MapSet(sessionFallbackCursor, sessionID, scan.idx)
                 ELSE sessionFallbackCursor
           /\ last' = [LastNone EXCEPT !.op = "chat.resume", !.session = sessionID,
                          !.vm = me.vm, !.handled = TRUE,
                          !.hadCursor = MapHas(sessionFallbackCursor, sessionID),
                          !.preCursor = me.cursor, !.targets = targets,
                          !.exposed = key, !.exposedIdx = scan.idx]
           /\ hist' = [hist EXCEPT
                          !.calls = MapSet(@, me.vm, MapGet(@, me.vm, 0) + 1),
                          !.current = IF found THEN MapSet(@, sessionID, key)
                                      ELSE MapDelete(@, sessionID)]
      /\ inflight' = [inflight EXCEPT ![h] = HandlerIdle]
      /\ UNCHANGED <<loadedConfig, metrics, sessionVirtualModel, now, fetchReq, backoff>>

\* event hook up to the await: the early returns, shouldFallbackForError, and
\* the read of the session's cursor
EventBegin ==
    /\ hist.ops < MaxOps
    /\ \E h \in Handlers, ev \in ConcEvents :
         LET sessionID == ev.sessionID[1]
             bound == EventBound(ev)
         IN
         /\ inflight[h].pc = "idle"
         /\ IF ~bound \/ ~shouldFallbackForError(ev.error[1],
                              loadedConfig.virtualModels[sessionVirtualModel[sessionID]],
                              loadedConfig.strategyProfiles)
            THEN /\ last' = [LastNone EXCEPT !.op = "event.begin", !.session = sessionID]
                 /\ UNCHANGED inflight
            ELSE /\ inflight' = [inflight EXCEPT ![h] =
                        [pc |-> "event", session |-> sessionID,
                         vm |-> sessionVirtualModel[sessionID],
                         cursor |-> MapGet(sessionFallbackCursor, sessionID, 0),
                         roundRobinIndex |-> roundRobinIndex]]
                 /\ last' = [LastNone EXCEPT !.op = "event.begin", !.session = sessionID,
                                !.vm = sessionVirtualModel[sessionID], !.handled = TRUE]
    /\ hist' = Counted(hist)
    /\ UNCHANGED <<loadedConfig, cooldowns, roundRobinIndex, metrics, sessionFallbackCursor,
                   sessionVirtualModel, now, fetchReq, backoff>>

\* event hook from the resumption: selectTargets, the penalty on the target
\* at the cursor read before the await, and the store of that cursor plus one
\* (or of the next viable index, or the removal of the entry)
EventResume ==
    \E h \in Handlers :
      LET me == inflight[h]
          sessionID == me.session
          config == loadedConfig.virtualModels[me.vm]
          currentCursor == me.cursor
      IN
      /\ me.pc = "event"
      /\ \E rnd \in RandomSources(config) :
           LET sel == selectTargets(me.vm, config,
                                    StateAtResume(roundRobinIndex, me.roundRobinIndex), rnd)
               targets == sel.result
               hasCurrent == currentCursor < Len(targets)
               modelKey == IF hasCurrent THEN ModelKey(targets[currentCursor + 1]) ELSE NoKey
               resolved == mergeWithProfile(config, resolveProfile(config, loadedConfig.strategyProfiles))
               mt1 == IF hasCurrent THEN recordFallback(modelKey, recordFailure(modelKey, metrics))
                      ELSE metrics
               set == IF hasCurrent THEN setCooldown(modelKey, resolved.cooldown, cooldowns, now)
                      ELSE [ok |-> TRUE, cooldowns |-> cooldowns]
               nextCursor == currentCursor + 1
               exhausted == nextCursor >= Len(targets)
               scan == IF exhausted \/ ~set.ok THEN [idx |-> -1, cooldowns |-> set.cooldowns]
                       ELSE ScanViable(targets, nextCursor, set.cooldowns, now)
               found == scan.idx >= 0
               key == IF found THEN ModelKey(targets[scan.idx + 1]) ELSE NoKey
               cursor1 == IF ~set.ok THEN sessionFallbackCursor
                          ELSE IF exhausted THEN MapDelete(sessionFallbackCursor, sessionID)
                          ELSE IF found THEN MapSet(sessionFallbackCursor, sessionID, scan.idx)
                          ELSE MapSet(sessionFallbackCursor, sessionID, nextCursor)
           IN
           /\ roundRobinIndex' = sel.roundRobinIndex
           /\ metrics' = mt1
           /\ cooldowns' = scan.cooldowns
           /\ sessionFallbackCursor' = cursor1
           /\ last' = [LastNone EXCEPT !.op = "event.resume", !.session = sessionID,
                          !.vm = me.vm, !.handled = TRUE,
                          !.hadCursor = MapHas(sessionFallbackCursor, sessionID),
                          !.preCursor = currentCursor,
                          !.targets = targets, !.penalised = modelKey,
                          !.exposed = key, !.exposedIdx = scan.idx]
           /\ hist' = [hist EXCEPT
                          !.calls = MapSet(@, me.vm, MapGet(@, me.vm, 0) + 1),
                          !.current = IF found THEN MapSet(@, sessionID, key) ELSE @]
      /\ inflight' = [inflight EXCEPT ![h] = HandlerIdle]
      /\ UNCHANGED <<loadedConfig, sessionVirtualModel, now, fetchReq, backoff>>

ConcurrentNext ==
    \/ ConfigHook
    \/ ChatBegin
    \/ ChatResume
    \/ EventBegin
    \/ EventResume
    \/ FetchStart
    \/ FetchReturn

SpecConcurrent == Init /\ [][ConcurrentNext]_vars

\* a handler resumed in this step and ran to its end
Resumed(h, pc) == inflight[h].pc = pc /\ inflight'[h].pc = "idle"

\* C33: under every interleaving of chat.message and event invocations for one
\* session the cursor is updated as by a sequential execution: a failure
\* report that completes leaves the session's cursor strictly beyond the value
\* stored when it applies its update (or removes the entry), so two
\* concurrent reports advance it twice, and a dispatch that completes never
\* lowers the stored value.
C33_CursorUpdatesAtomic ==
    [][\A h \in Handlers :
         LET s == inflight[h].session IN
         /\ Resumed(h, "event") /\ MapHas(sessionFallbackCursor, s)
                                /\ MapHas(sessionFallbackCursor', s)
              => sessionFallbackCursor'[s] > sessionFallbackCursor[s]
         /\ Resumed(h, "chat.message") /\ MapHas(sessionFallbackCursor, s)
              => /\ MapHas(sessionFallbackCursor', s)
                 /\ sessionFallbackCursor'[s] >= sessionFallbackCursor[s]]_vars

\* the step calls selectTargets for virtual model id: the resumption of a
\* chat.message or event invocation, or the start of a fetch
SelectsFor(id) ==
    /\ last'.vm = id
    /\ \/ \E h \in Handlers : Resumed(h, "chat.message") \/ Resumed(h, "event")
       \/ fetchReq.pc = "idle" /\ last'.op \in {"fetch.attempt", "fetch.exhausted"}

\* C34: under every interleaving of the invocations, each call of
\* selectTargets for a round_robin model returns the rotation beginning at
\* the cursor stored when the call runs and stores that cursor plus one
\* modulo N, and no other step changes the stored cursor: consecutive calls
\* observe consecutive cursors and k calls from c leave (c + k) mod N.
C34_RoundRobinAtomicPerCall ==
    [][\A id \in DOMAIN loadedConfig.virtualModels :
         LET config == loadedConfig.virtualModels[id]
             n == Len(config.targets)
             c == MapGet(roundRobinIndex, id, 0)
         IN config.strategy = "round_robin" =>
              IF SelectsFor(id)
              THEN /\ last'.targets = Rotation(config.targets, c)
                   /\ MapGet(roundRobinIndex', id, 0) = (c + 1) % n
              ELSE MapGet(roundRobinIndex', id, 0) = c]_vars

\* an invocation resumed and called selectTargets for the round_robin model
\* while another, suspended before that call and before the one preceding
\* it, is still waiting: the stored cursor has moved by two since then
C34_Witness ==
    /\ last.op \in {"chat.resume", "event.resume"}
    /\ MapHas(loadedConfig.virtualModels, last.vm)
    /\ loadedConfig.virtualModels[last.vm].strategy = "round_robin"
    /\ \E h \in Handlers :
         /\ inflight[h].pc # "idle" /\ inflight[h].vm = last.vm
         /\ MapGet(inflight[h].roundRobinIndex, last.vm, 0) = 0
         /\ MapGet(roundRobinIndex, last.vm, 0) = 2

====
